---- MODULE Spec2Model ----
(***************************************************************************)
(* A model of retrieve_tailor_example: the text resolver, the classify and *)
(* generate stages and the batch drivers, translated from the Python       *)
(* sources.  Each component has its own specification (SpecLink,           *)
(* SpecClassify, ...) over its own variables; the variables of the other   *)
(* components rest at their idle values.                                   *)
(***************************************************************************)
EXTENDS Integers, Sequences, FiniteSets, TLC

VARIABLES
    links,      \* Article.links: ordered sequence of [label, url], distinct labels
    link,       \* value returned by _best_link
    shown,      \* the link printed by _format_metadata_block
    linkPc,     \* "idle" | "start" | "done"
    cpText,     \* classify_paper: the text argument, [id, len]
    cpRaw,      \* classify_paper: what agent.ask did, [err, raw]
    cpDoc,      \* classify_paper: the document handed to agent.ask
    cpCalls,    \* classify_paper: number of agent.ask calls
    cpOut,      \* classify_paper: outcome, a return value or a raised exception
    cpPc,       \* "idle" | "start" | "done"
    rsUrl,      \* resolve_article_text: article.pdf_url (NoUrl for None)
    rsDir,      \* resolve_article_text: md_dir, [given, files]
    rsFetches,  \* resolve_article_text: number of fetch_and_extract calls
    rsFetchOk,  \* resolve_article_text: whether that fetch returned (it may raise)
    rsOut,      \* resolve_article_text: outcome, a returned text or a raised exception
    rsPc,       \* "idle" | "start" | "done"
    caDir,      \* classify_all_papers: md_dir, file name -> content
    caLedger,   \* classify_all_papers: the file at output_path, [exists, entries]
    caFiles,    \* classify_all_papers: md_files
    caI,        \* classify_all_papers: the loop index i
    caResults,  \* classify_all_papers: results
    caReturned, \* classify_all_papers: the returned list
    caCalls,    \* classify_all_papers: number of agent.ask calls
    caSleeps,   \* classify_all_papers: number of time.sleep calls
    caEvents,   \* classify_all_papers: what happened to each item, in order
    caPc,       \* "idle" | "start" | "loop" | "write" | "done"
    pdfDir,     \* the source directory: file name -> "good" | "corrupt"
    mdDir,      \* the text cache directory: file name -> text
    artDir,     \* the articles directory: file name -> [valid, url]
    ledger,     \* the classification ledger: sequence of entries
    outDir,     \* the example output directory: file name -> content
    stage,      \* "off" | "idle" | "convert" | "generate" | "converted" | "generated"
    items,      \* pdf_files of convert_all_pdfs, real_world of generate_all_examples
    idx,        \* the loop index i
    acc,        \* converted / generated: the list the run returns
    cnt,        \* calls of the run: [extract, fetch, agent, sleep]
    written,    \* names of the files the run has written
    events,     \* what happened to each item of the run, in order: [file, what, id,
                \* pid (the paper_id given to generate_example, 0 if not called), calls]
    before,     \* the run's output directory as it was when the run started
    prev,       \* the run that ended right before this one started: [stage, failed, work]
    deleted,    \* the example file just deleted from a complete output directory
    regen,      \* that file, for the run started right after its deletion
    scListing,  \* scrape: the articles scraper.scrape() returned
    scArtDir,   \* scrape: the articles directory: file name -> Article
    scPdfDir,   \* scrape: the PDF directory: file name -> bytes
    scI,        \* scrape: the loop index i
    scDownloaded, \* scrape: the counter downloaded
    scRequests, \* scrape: HTTP requests sent in this run
    scEvents,   \* scrape: what happened to each article of the run, in order
    scPc,       \* "idle" | "start" | "loop" | "done" | "raised"
    ssIn,       \* single-shot: [impl, key, url, given, force, scraper, before], the run's
                \* inputs and the file at the output path before the run
    ssArticle,  \* single-shot: the article of the fetch step
    ssText,     \* single-shot: the text of the fetch step
    ssVerdict,  \* single-shot: what classify_paper returned or raised
    ssOut,      \* single-shot: the file at the output path
    ssLog,      \* single-shot: the calls of the run, in order
    ssExc,      \* single-shot: the exception that reached the caller
    ssPc        \* "idle" | "start" | "fetch" | "classify" | "generate" | "persist"
                \* | "done" | "raised"

linkVars == <<links, link, shown, linkPc>>
cpVars == <<cpText, cpRaw, cpDoc, cpCalls, cpOut, cpPc>>
rsVars == <<rsUrl, rsDir, rsFetches, rsFetchOk, rsOut, rsPc>>
caVars ==
    <<caDir, caLedger, caFiles, caI, caResults, caReturned, caCalls, caSleeps,
      caEvents, caPc>>
fsVars == <<pdfDir, mdDir, artDir, ledger, outDir>>
runVars == <<stage, items, idx, acc, cnt, written, events, before, prev, deleted, regen>>
batchVars == <<fsVars, runVars>>
scVars == <<scListing, scArtDir, scPdfDir, scI, scDownloaded, scRequests, scEvents, scPc>>
ssVars == <<ssIn, ssArticle, ssText, ssVerdict, ssOut, ssLog, ssExc, ssPc>>
vars == <<linkVars, cpVars, rsVars, caVars, batchVars, scVars, ssVars>>

None == "None"

Min2(a, b) == IF a <= b THEN a ELSE b

(***************************************************************************)
(* generate.py: _best_link and _format_metadata_block                      *)
(*                                                                         *)
(* A label is a sequence of chunks of text.  The chunks are chosen so that *)
(* a keyword occurs in the lowercased label exactly when it is the         *)
(* lowercased form of one of its chunks.                                   *)
(***************************************************************************)
MaxLinks == 3

Keywords == {"doi", "acm", "springer", "elsevier", "ieee", "online"}

\* str.lower() on one chunk
LowerChunk(c) ==
    CASE c = "DOI" -> "doi"
      [] c = "PDF" -> "pdf"
      [] c = "Pdf" -> "pdf"
      [] c = "ACM" -> "acm"
      [] c = "IEEE" -> "ieee"
      [] c = "Online" -> "online"
      [] c = "Springer" -> "springer"
      [] c = "Slides" -> "slides"
      [] OTHER -> c

\* label.lower()
Lower(label) == [i \in 1..Len(label) |-> LowerChunk(label[i])]

\* any(k in label.lower() for k in (...))
HasKeyword(label) == \E i \in 1..Len(label) : Lower(label)[i] \in Keywords

\* label.lower() != "pdf"
NotPdf(label) == Lower(label) # <<"pdf">>

Labels ==
    { <<"PDF">>, <<"pdf">>, <<"Pdf">>, <<"DOI">>, <<"Slides">>,
      <<"PDF", " (", "Online", ")">>, <<"pdf", " ", "Slides">>, <<"IEEE", " Xplore">> }

\* URLs come out of urljoin(listing url, href): never empty.  The i-th link of
\* a mapping carries the i-th URL, so the chosen URL names the chosen link.
LinkUrls == <<"u1", "u2", "u3", "u4", "u5">>

\* the least element of a non-empty set of indices, 0 for the empty set
FirstOf(I) == IF I = {} THEN 0 ELSE CHOOSE i \in I : \A j \in I : i <= j

\* first loop: the index of the first link whose label holds a keyword, else 0
FirstKeyword(ls) == FirstOf({i \in 1..Len(ls) : HasKeyword(ls[i].label)})

\* second loop: the index of the first link whose label is not "pdf", else 0
FirstNotPdf(ls) == FirstOf({i \in 1..Len(ls) : NotPdf(ls[i].label)})

\* mutant of _best_link: the fallback to the first link of any kind is lost
BestLinkNoFallback(ls) ==
    LET a == FirstKeyword(ls)
        b == FirstNotPdf(ls)
    IN  IF a # 0 THEN ls[a].url
        ELSE IF b # 0 THEN ls[b].url
        ELSE None

\* mutant of _best_link: the two loops are swapped
BestLinkSwapped(ls) ==
    LET a == FirstKeyword(ls)
        b == FirstNotPdf(ls)
    IN  IF b # 0 THEN ls[b].url
        ELSE IF a # 0 THEN ls[a].url
        ELSE IF Len(ls) > 0 THEN ls[1].url
        ELSE None

\* _best_link(article)
BestLink(ls) ==
    LET a == FirstKeyword(ls)
        b == FirstNotPdf(ls)
    IN  IF a # 0 THEN ls[a].url
        ELSE IF b # 0 THEN ls[b].url
        ELSE IF Len(ls) > 0 THEN ls[1].url
        ELSE None

Sentinel == "_No link available_"

\* the "- Link:" line of _format_metadata_block
FormatLink(ls) ==
    LET l == BestLink(ls) IN IF l # None THEN l ELSE Sentinel

\* ordered label -> URL mappings (a dict: distinct labels)
LinkSeqs ==
    UNION { { [i \in 1..n |-> [label |-> ls[i], url |-> LinkUrls[i]]] :
                ls \in { t \in [1..n -> Labels] :
                            \A i, j \in 1..n : i # j => t[i] # t[j] } } :
            n \in 0..MaxLinks }

LinkIdle == links = <<>> /\ link = None /\ shown = None /\ linkPc = "idle"

LinkStart ==
    /\ links \in LinkSeqs
    /\ link = None
    /\ shown = None
    /\ linkPc = "start"

\* generate_example's call of _format_metadata_block(article)
FormatMetadataBlock ==
    /\ linkPc = "start"
    /\ link' = BestLink(links)
    /\ shown' = FormatLink(links)
    /\ linkPc' = "done"
    /\ UNCHANGED <<links, cpVars, rsVars, caVars, batchVars, scVars, ssVars>>

(***************************************************************************)
(* classify.py: classify_paper                                             *)
(*                                                                         *)
(* A text is [id, len]: which paper it is and how many characters it has.  *)
(* The agent's answer is a sequence of tokens, each a fixed piece of text: *)
(*   "{"  "}"       the braces                                             *)
(*   "K1" "K0"      "is_real_world_application": true / false              *)
(*   "R"            , "reason": "ok"        (with its leading comma)       *)
(*   "N"            null                                                   *)
(*   "P"            Sure!                   (prose without braces)         *)
(***************************************************************************)
MAX_CHARS == 3000
MIN_CHARS == 5000

MaxAnswerLen == 5

Tokens == {"{", "}", "K1", "K0", "R", "N", "P"}

Answers == UNION { [1..n -> Tokens] : n \in 0..MaxAnswerLen }

TextLens == {0, MAX_CHARS, MIN_CHARS - 1, MIN_CHARS, MIN_CHARS + 1}

Texts == [id : {"t1"}, len : TextLens]

\* text[:n]
Prefix(text, n) == [id |-> text.id, len |-> Min2(text.len, n)]

\* a parsed JSON value: dict says whether it is an object, has whether the key
\* is_real_world_application is present, rw its value, hasReason whether the
\* key reason is present
JsonValue(dict, has, rw, hasReason) ==
    [dict |-> dict, has |-> has, rw |-> rw, hasReason |-> hasReason]

JsonNull == JsonValue(FALSE, FALSE, FALSE, FALSE)

\* json.loads(s): [ok, val], ok = FALSE for JSONDecodeError
JsonLoads(s) ==
    LET n == Len(s) IN
    IF s = <<"N">> THEN [ok |-> TRUE, val |-> JsonNull]
    ELSE IF n = 2 /\ s[1] = "{" /\ s[2] = "}"
        THEN [ok |-> TRUE, val |-> JsonValue(TRUE, FALSE, FALSE, FALSE)]
    ELSE IF /\ n >= 3 /\ s[1] = "{" /\ s[n] = "}"
            /\ s[2] \in {"K1", "K0"}
            /\ \A i \in 3..(n - 1) : s[i] = "R"
        THEN [ok |-> TRUE, val |-> JsonValue(TRUE, TRUE, s[2] = "K1", n > 3)]
    ELSE [ok |-> FALSE, val |-> JsonNull]

\* raw.find("{"): index of the first "{", 0 when there is none
FindOpen(s) ==
    IF \E i \in 1..Len(s) : s[i] = "{"
    THEN CHOOSE i \in 1..Len(s) : s[i] = "{" /\ \A j \in 1..(i - 1) : s[j] # "{"
    ELSE 0

\* raw.rfind("}"): index of the last "}", 0 when there is none
RFindClose(s) ==
    IF \E i \in 1..Len(s) : s[i] = "}"
    THEN CHOOSE i \in 1..Len(s) : s[i] = "}" /\ \A j \in (i + 1)..Len(s) : s[j] # "}"
    ELSE 0

\* the outcome of a call: a returned verdict or a raised exception
Returned(rw, reason) == [kind |-> "return", rw |-> rw, reason |-> reason, exc |-> None]
Raised(exc) == [kind |-> "raise", rw |-> FALSE, reason |-> <<>>, exc |-> exc]
NoOutcome == [kind |-> "none", rw |-> FALSE, reason |-> <<>>, exc |-> None]

TooShortReason == <<"skipped: too short (likely slides/poster)">>

\* the final return statement: result["is_real_world_application"], result.get("reason", "")
PickKeys(val) ==
    IF ~val.dict THEN Raised("TypeError")
    ELSE IF ~val.has THEN Raised("KeyError")
    ELSE Returned(val.rw, IF val.hasReason THEN <<"ok">> ELSE <<"">>)

\* the try/except around json.loads(raw) and the return statement
ParseAnswer(raw) ==
    LET direct == JsonLoads(raw)
        start == FindOpen(raw)
        end == RFindClose(raw)
        inner == JsonLoads(SubSeq(raw, start, end))
    IN  IF direct.ok THEN PickKeys(direct.val)
        ELSE IF start # 0 /\ end > start
            THEN IF inner.ok THEN PickKeys(inner.val) ELSE Raised("JSONDecodeError")
        ELSE Returned(FALSE, <<"parse error: ">> \o raw)

\* mutant of NeedsAgent: the length gate compares with MAX_CHARS
NeedsAgentMaxChars(text) == ~(text.len < MAX_CHARS)

\* the gate of classify_paper: len(text) < MIN_CHARS returns early
NeedsAgent(text) == ~(text.len < MIN_CHARS)

\* what agent.ask does: it answers raw, or raises (err)
Reply(err, raw) == [err |-> err, raw |-> raw]
NoReply == Reply(FALSE, <<>>)
Replies == {Reply(FALSE, a) : a \in Answers} \cup {Reply(TRUE, <<>>)}

\* classify_paper(text, agent) when agent.ask does reply
ClassifyPaperResult(text, reply) ==
    IF ~NeedsAgent(text) THEN Returned(FALSE, TooShortReason)
    ELSE IF reply.err THEN Raised("AgentError")
    ELSE ParseAnswer(reply.raw)

CpIdle ==
    /\ cpText = None /\ cpRaw = NoReply /\ cpDoc = None
    /\ cpCalls = 0 /\ cpOut = NoOutcome /\ cpPc = "idle"

CpStart ==
    /\ cpText \in Texts
    /\ cpRaw = NoReply
    /\ cpDoc = None
    /\ cpCalls = 0
    /\ cpOut = NoOutcome
    /\ cpPc = "start"

\* classify_paper on a text below the threshold: no agent call
ClassifyPaperShort ==
    /\ cpPc = "start"
    /\ ~NeedsAgent(cpText)
    /\ cpOut' = ClassifyPaperResult(cpText, NoReply)
    /\ cpPc' = "done"
    /\ UNCHANGED <<cpText, cpRaw, cpDoc, cpCalls, linkVars, rsVars, caVars, batchVars, scVars, ssVars>>

\* classify_paper on a longer text: one agent.ask, then the parsing
ClassifyPaperAsk ==
    /\ cpPc = "start"
    /\ NeedsAgent(cpText)
    /\ \E reply \in Replies :
        /\ cpRaw' = reply
        /\ cpOut' = ClassifyPaperResult(cpText, reply)
    /\ cpDoc' = Prefix(cpText, MAX_CHARS)
    /\ cpCalls' = cpCalls + 1
    /\ cpPc' = "done"
    /\ UNCHANGED <<cpText, linkVars, rsVars, caVars, batchVars, scVars, ssVars>>

(***************************************************************************)
(* document.py: resolve_article_text                                       *)
(*                                                                         *)
(* A file name is the sequence of its dot-separated parts ("p1.v2.pdf" is  *)
(* <<"p1", "v2", "pdf">>); a URL is the sequence of its "/"-separated      *)
(* segments, each a file name.  A directory is a function from the names   *)
(* of its files to their contents.                                         *)
(***************************************************************************)
\* article.pdf_url = None
NoUrl == <<>>

\* url.split("/")[-1]
LastSegment(url) == url[Len(url)]

\* Path(name).suffix is non-empty: the last dot is neither the first nor the
\* last character of the name
HasSuffix(name) ==
    /\ Len(name) >= 2
    /\ name[Len(name)] # ""
    /\ ~(Len(name) = 2 /\ name[1] = "")

\* Path(name).stem
Stem(name) == IF HasSuffix(name) THEN SubSeq(name, 1, Len(name) - 1) ELSE name

\* f"{stem}.md", f"{stem}.json"
WithExt(stem, ext) == Append(stem, ext)

\* mutant of MdNameOf: the suffix of the document's file name is kept
MdNameOfWholeName(url) == WithExt(LastSegment(url), "md")

\* Path(article.pdf_url.split("/")[-1]).stem, f"{stem}.md"
MdNameOf(url) == WithExt(Stem(LastSegment(url)), "md")

\* path.exists() for a file of a directory
Exists(files, name) == name \in DOMAIN files

\* the directory with one file written (created or overwritten)
Write(files, name, content) ==
    [n \in DOMAIN files \cup {name} |-> IF n = name THEN content ELSE files[n]]

\* the directory with one file removed
Remove(files, name) == [n \in DOMAIN files \ {name} |-> files[n]]

\* all directories holding some of the files names, with contents from contents
Dirs(names, contents) == UNION { [S -> contents] : S \in SUBSET names }

\* the text fetch_and_extract(url) extracts when it succeeds
Fetched == "fetched"

TextReturned(text) == [kind |-> "return", text |-> text, exc |-> None]
TextRaised(exc) == [kind |-> "raise", text |-> None, exc |-> exc]
NoText == [kind |-> "none", text |-> None, exc |-> None]

\* mutant of ResolveArticleText: the cache is looked up under the whole file
\* name of the URL, not under its stem
ResolveByFileName(url, dir, fetchOk) ==
    IF dir.given /\ url # NoUrl /\ Exists(dir.files, WithExt(LastSegment(url), "md"))
    THEN [out |-> TextReturned(dir.files[WithExt(LastSegment(url), "md")]), fetches |-> 0]
    ELSE IF url = NoUrl
    THEN [out |-> TextRaised("ValueError"), fetches |-> 0]
    ELSE [out |-> IF fetchOk THEN TextReturned(Fetched) ELSE TextRaised("FetchError"),
          fetches |-> 1]

\* mutant of ResolveArticleText: an article without URL yields the empty text
ResolveEmptyText(url, dir, fetchOk) ==
    IF dir.given /\ url # NoUrl /\ Exists(dir.files, MdNameOf(url))
    THEN [out |-> TextReturned(dir.files[MdNameOf(url)]), fetches |-> 0]
    ELSE IF url = NoUrl
    THEN [out |-> TextReturned(""), fetches |-> 0]
    ELSE [out |-> IF fetchOk THEN TextReturned(Fetched) ELSE TextRaised("FetchError"),
          fetches |-> 1]

\* resolve_article_text(article, md_dir): the outcome and the number of fetches,
\* fetchOk telling whether fetch_and_extract returns or raises
ResolveArticleText(url, dir, fetchOk) ==
    IF dir.given /\ url # NoUrl /\ Exists(dir.files, MdNameOf(url))
    THEN [out |-> TextReturned(dir.files[MdNameOf(url)]), fetches |-> 0]
    ELSE IF url = NoUrl
    THEN [out |-> TextRaised("ValueError"), fetches |-> 0]
    ELSE [out |-> IF fetchOk THEN TextReturned(Fetched) ELSE TextRaised("FetchError"),
          fetches |-> 1]

Host == <<"x", "org">>

\* the URLs articles carry: urljoin of the listing URL and an href, never empty
PdfUrls ==
    { <<Host, <<"p1", "pdf">>>>, <<Host, <<"p2", "pdf">>>>,
      <<Host, <<"p1", "v2", "pdf">>>>, <<Host, <<"papers">>, <<"p1", "PDF">>>>,
      <<Host, <<"p3">>>> }

\* names of files that may lie in the text cache
RsMdNames ==
    { <<"p1", "md">>, <<"p2", "md">>, <<"p1", "v2", "md">>, <<"p1", "pdf", "md">>,
      <<"p3", "md">> }

CachedTexts == {"", "cached1", "cached2"}

NoDir == [given |-> FALSE, files |-> <<>>]

RsDirs == {NoDir} \cup {[given |-> TRUE, files |-> f] : f \in Dirs(RsMdNames, CachedTexts)}

RsIdle ==
    /\ rsUrl = NoUrl /\ rsDir = NoDir /\ rsFetches = 0
    /\ rsFetchOk = FALSE /\ rsOut = NoText /\ rsPc = "idle"

RsStart ==
    /\ rsUrl \in PdfUrls \cup {NoUrl}
    /\ rsDir \in RsDirs
    /\ rsFetches = 0
    /\ rsFetchOk = FALSE
    /\ rsOut = NoText
    /\ rsPc = "start"

\* one call of resolve_article_text; the network decides whether a fetch succeeds
ResolveCall ==
    /\ rsPc = "start"
    /\ \E ok \in BOOLEAN :
        LET r == ResolveArticleText(rsUrl, rsDir, ok) IN
        /\ r.fetches = 0 => ~ok
        /\ rsOut' = r.out
        /\ rsFetches' = rsFetches + r.fetches
        /\ rsFetchOk' = ok
    /\ rsPc' = "done"
    /\ UNCHANGED <<rsUrl, rsDir, linkVars, cpVars, caVars, batchVars, scVars, ssVars>>

(***************************************************************************)
(* classify.py: classify_all_papers                                        *)
(***************************************************************************)
\* the parts of the file names of the model, in the order of str comparison
PartOrder ==
    <<"", "PDF", "a_b", "json", "md", "notes", "org", "p1", "p2", "p3", "papers", "pdf",
      "txt", "v2", "x">>

Rank(part) == CHOOSE i \in 1..Len(PartOrder) : PartOrder[i] = part

\* a < b for two file names of one directory, as sorted() compares them: "." sorts
\* before every letter and digit, so the names compare part by part
NameLess(a, b) ==
    \E k \in 1..(Min2(Len(a), Len(b)) + 1) :
        /\ \A j \in 1..(k - 1) : a[j] = b[j]
        /\ \/ k > Len(a) /\ k <= Len(b)
           \/ k <= Len(a) /\ k <= Len(b) /\ Rank(a[k]) < Rank(b[k])

\* sorted(names)
RECURSIVE Sorted(_)
Sorted(S) ==
    IF S = {} THEN <<>>
    ELSE LET m == CHOOSE x \in S : \A y \in S \ {x} : NameLess(x, y)
         IN  <<m>> \o Sorted(S \ {m})

\* directory.glob("*.<ext>")
Glob(files, ext) == {n \in DOMAIN files : Len(n) >= 2 /\ n[Len(n)] = ext}

\* the content of a file of the text directory: a text, or bytes read_text cannot decode
Unreadable == [id |-> "undecodable", len |-> 0]
Readable(content) == content # Unreadable

\* one entry of results
Entry(file, rw, reason) == [file |-> file, rw |-> rw, reason |-> reason]

\* mutant of ItemResults: an item whose classification raises is dropped
ItemResultsDropFailed(name, content, reply) ==
    LET out == ClassifyPaperResult(content, reply) IN
    IF ~Readable(content) THEN <<>>
    ELSE IF out.kind = "return" THEN <<Entry(name, out.rw, out.reason)>>
    ELSE <<>>

\* the body of the loop of classify_all_papers: what it appends to results for
\* the file name, the agent doing reply if it is asked
ItemResults(name, content, reply) ==
    LET out == ClassifyPaperResult(content, reply) IN
    IF ~Readable(content) THEN <<Entry(name, FALSE, <<"error: ", "UnicodeDecodeError">>)>>
    ELSE IF out.kind = "return" THEN <<Entry(name, out.rw, out.reason)>>
    ELSE <<Entry(name, FALSE, <<"error: ", out.exc>>)>>

\* at most this many files lie in the text directory
MaxTexts == 2

CaNames ==
    { <<"p1", "md">>, <<"p2", "md">>, <<"p1", "v2", "md">>, <<"papers", "md">>,
      <<"notes", "txt">> }

CaContents ==
    { Unreadable, [id |-> "t1", len |-> MIN_CHARS - 1], [id |-> "t1", len |-> MIN_CHARS] }

\* what the agent may do when asked: raise, or one of these answers
CaReplies ==
    { Reply(TRUE, <<>>),
      Reply(FALSE, <<"{", "K1", "R", "}">>),
      Reply(FALSE, <<"{", "K0", "}">>),
      Reply(FALSE, <<"P", "{", "K1", "R", "}">>),
      Reply(FALSE, <<"P">>),
      Reply(FALSE, <<"{", "P", "}">>),
      Reply(FALSE, <<"N">>),
      Reply(FALSE, <<"{", "}">>) }

NoLedger == [exists |-> FALSE, entries |-> <<>>]
LedgerOf(entries) == [exists |-> TRUE, entries |-> entries]
OldLedger ==
    LedgerOf(<<Entry(<<"p1", "md">>, TRUE, <<"old">>), Entry(<<"p3", "md">>, TRUE, <<"old">>)>>)

\* mutant of WrittenLedger: the results are appended to the previous ledger
WrittenLedgerMerged(old, results) == LedgerOf(old.entries \o results)

\* output_path.write_text(json.dumps(results, indent=2)): the file is replaced
WrittenLedger(old, results) == LedgerOf(results)

\* mutant of SleepsAfter: the delay follows the last item too
SleepsAfterAlways(i, n) == TRUE

\* if i < len(md_files): time.sleep(delay), and the same test on real_world at
\* the end of the loop body of generate_all_examples
SleepsAfter(i, n) == i < n

CaIdle ==
    /\ caDir = <<>> /\ caLedger = NoLedger /\ caFiles = <<>> /\ caI = 0
    /\ caResults = <<>> /\ caReturned = <<>> /\ caCalls = 0 /\ caSleeps = 0
    /\ caEvents = <<>> /\ caPc = "idle"

CaStart ==
    /\ caDir \in {d \in Dirs(CaNames, CaContents) : Cardinality(DOMAIN d) <= MaxTexts}
    /\ caLedger \in {NoLedger, OldLedger}
    /\ caFiles = <<>> /\ caI = 0
    /\ caResults = <<>> /\ caReturned = <<>> /\ caCalls = 0 /\ caSleeps = 0
    /\ caEvents = <<>> /\ caPc = "start"

\* md_files = sorted(md_dir.glob("*.md")); results = []
ClassifyAllStart ==
    /\ caPc = "start"
    /\ caFiles' = Sorted(Glob(caDir, "md"))
    /\ caI' = 1
    /\ caPc' = IF Glob(caDir, "md") = {} THEN "write" ELSE "loop"
    /\ UNCHANGED <<caDir, caLedger, caResults, caReturned, caCalls, caSleeps, caEvents>>
    /\ UNCHANGED <<linkVars, cpVars, rsVars, batchVars, scVars, ssVars>>

\* one iteration of the loop: read, classify, append; sleep unless it is the last
ClassifyAllItem ==
    /\ caPc = "loop"
    /\ LET name == caFiles[caI]
           content == caDir[name]
           asked == Readable(content) /\ NeedsAgent(content)
       IN  \E reply \in CaReplies \cup {NoReply} :
            /\ asked <=> reply \in CaReplies
            /\ caResults' = caResults \o ItemResults(name, content, reply)
            /\ caCalls' = caCalls + (IF asked THEN 1 ELSE 0)
            /\ caEvents' = Append(caEvents,
                    [file |-> name, readable |-> Readable(content),
                     asked |-> asked, reply |-> reply,
                     slept |-> SleepsAfter(caI, Len(caFiles))])
    /\ caSleeps' = caSleeps + (IF SleepsAfter(caI, Len(caFiles)) THEN 1 ELSE 0)
    /\ caI' = caI + 1
    /\ caPc' = IF caI < Len(caFiles) THEN "loop" ELSE "write"
    /\ UNCHANGED <<caDir, caLedger, caFiles, caReturned>>
    /\ UNCHANGED <<linkVars, cpVars, rsVars, batchVars, scVars, ssVars>>

\* output_path.write_text(json.dumps(results)); return results
ClassifyAllWrite ==
    /\ caPc = "write"
    /\ caLedger' = WrittenLedger(caLedger, caResults)
    /\ caReturned' = caResults
    /\ caPc' = "done"
    /\ UNCHANGED <<caDir, caFiles, caI, caResults, caCalls, caSleeps, caEvents>>
    /\ UNCHANGED <<linkVars, cpVars, rsVars, batchVars, scVars, ssVars>>

(***************************************************************************)
(* document.py: convert_all_pdfs; generate.py: generate_all_examples       *)
(*                                                                         *)
(* The two batch stages run one at a time over the directories.  Between   *)
(* runs a generated example may be deleted.                                *)
(***************************************************************************)
NoName == <<>>

\* the text extract_text_from_pdf extracts from a good PDF
Extracted == "extracted"

\* the markdown agent.ask returns to generate_example
Generated == "generated"

\* calls counted per item and per run: extractions, text resolutions, network
\* fetches, agent calls, sleeps
Calls(e, r, f, a, sl) ==
    [extract |-> e, resolve |-> r, fetch |-> f, agent |-> a, sleep |-> sl]
NoCalls == Calls(0, 0, 0, 0, 0)
AddCalls(c, d) ==
    Calls(c.extract + d.extract, c.resolve + d.resolve, c.fetch + d.fetch,
          c.agent + d.agent, c.sleep + d.sleep)

\* what one iteration of a batch loop did: the directory it leaves, what it
\* appends to the returned list, its calls, the file it wrote, how it ended
Step(dir, add, calls, wrote, what) ==
    [dir |-> dir, add |-> add, calls |-> calls, wrote |-> wrote, what |-> what]

\* mutant of Failed: the failing item takes the directory's files with it
FailedClearsDir(dir, calls) == Step(<<>>, <<>>, calls, {}, "failed")

\* except Exception: the item is reported, nothing is written, nothing is appended
Failed(dir, calls) == Step(dir, <<>>, calls, {}, "failed")

\* mutant of ConvertSkips: the existence check is lost
ConvertSkipsNever(md, mdName) == FALSE

\* convert_all_pdfs: if md_path.exists() ... continue
ConvertSkips(md, mdName) == Exists(md, mdName)

\* one iteration of the loop of convert_all_pdfs for the file pdfName; ioOk tells
\* whether the disk lets the extraction and write_text through
ConvertStep(pdfName, pdf, md, ioOk) ==
    LET mdName == WithExt(Stem(pdfName), "md") IN
    IF ConvertSkips(md, mdName)
    THEN Step(md, <<mdName>>, NoCalls, {}, "exists")
    ELSE IF pdf[pdfName] = "corrupt" \/ ~ioOk
    THEN Failed(md, Calls(1, 0, 0, 0, 0))
    ELSE Step(Write(md, mdName, Extracted), <<mdName>>, Calls(1, 0, 0, 0, 0), {mdName}, "ok")

\* mutant of GenerateSkips: the existence check is lost
GenerateSkipsNever(out, filename) == FALSE

\* generate_all_examples: if output_path.exists() ... continue
GenerateSkips(out, filename) == Exists(out, filename)

\* mutant of SkipMissing: the entry without article record is returned as generated
SkipMissingListed(out, filename) == Step(out, <<filename>>, NoCalls, {}, "missing")

\* generate_all_examples: if not article_path.exists() ... continue
SkipMissing(out, filename) == Step(out, <<>>, NoCalls, {}, "missing")

\* mutant of PaperId: the ids start at zero
PaperIdZeroBased(i) == i - 1

\* generate_all_examples: paper_id=i, the index of enumerate(real_world, 1)
PaperId(i) == i

\* what the network, the agent and the disk do during one iteration
Env(fetchOk, agentOk, ioOk) == [fetchOk |-> fetchOk, agentOk |-> agentOk, ioOk |-> ioOk]
Envs == [fetchOk : BOOLEAN, agentOk : BOOLEAN, ioOk : BOOLEAN]

\* one iteration of the loop of generate_all_examples for the i-th of n entries
GenerateStep(entry, i, n, art, md, out, env) ==
    LET filename == entry.file
        jsonName == WithExt(Stem(filename), "json")
        sl == IF SleepsAfter(i, n) THEN 1 ELSE 0
        r == ResolveArticleText(art[jsonName].url, [given |-> TRUE, files |-> md],
                                env.fetchOk)
    IN  IF GenerateSkips(out, filename)
        THEN Step(out, <<filename>>, NoCalls, {}, "exists")
        ELSE IF ~Exists(art, jsonName)
        THEN SkipMissing(out, filename)
        ELSE IF ~art[jsonName].valid
        THEN Failed(out, Calls(0, 0, 0, 0, sl))
        ELSE IF r.out.kind = "raise"
        THEN Failed(out, Calls(0, 1, r.fetches, 0, sl))
        ELSE IF ~env.agentOk \/ ~env.ioOk
        THEN Failed(out, Calls(0, 1, r.fetches, 1, sl))
        ELSE Step(Write(out, filename, Generated), <<filename>>,
                  Calls(0, 1, r.fetches, 1, sl), {filename}, "ok")

\* real_world = [c for c in classifications if c["is_real_world_application"]]
RealWorld(entries) == SelectSeq(entries, LAMBDA c : c.rw)

Papers == {"p1", "p2"}

PdfNames == {<<p, "pdf">> : p \in Papers} \cup {<<"notes", "txt">>}
MdNames == {<<p, "md">> : p \in Papers}
JsonNames == {<<p, "json">> : p \in Papers}

\* the record under "<stem>.json": unparsable, without pdf_url, or with the URL
\* whose file name has that stem
ArticleOf(name) ==
    { [valid |-> FALSE, url |-> NoUrl], [valid |-> TRUE, url |-> NoUrl],
      [valid |-> TRUE, url |-> <<Host, <<name[1], "pdf">>>>] }

ArtDirs ==
    UNION { {f \in [S -> UNION {ArticleOf(n) : n \in S}] : \A n \in S : f[n] \in ArticleOf(n)} :
            S \in SUBSET JsonNames }

\* ledgers as classify_all_papers writes them: one entry per file, sorted by name
Ledgers ==
    UNION { {[i \in 1..Len(Sorted(S)) |-> Entry(Sorted(S)[i], rw[Sorted(S)[i]], <<"ok">>)] :
                rw \in [S -> BOOLEAN]} : S \in SUBSET MdNames }

NoPrev == [stage |-> "none", failed |-> FALSE, work |-> FALSE]

RunIdle ==
    /\ items = <<>> /\ idx = 0 /\ acc = <<>> /\ cnt = NoCalls /\ written = {}
    /\ events = <<>> /\ before = <<>> /\ prev = NoPrev /\ deleted = NoName
    /\ regen = NoName

BatchIdle ==
    /\ pdfDir = <<>> /\ mdDir = <<>> /\ artDir = <<>> /\ ledger = <<>> /\ outDir = <<>>
    /\ stage = "off" /\ RunIdle

\* the directories before any run: those convert_all_pdfs reads, or those
\* generate_all_examples reads
BatchStart ==
    /\ \/ /\ pdfDir \in Dirs(PdfNames, {"good", "corrupt"})
          /\ mdDir \in Dirs(MdNames, {"cached"})
          /\ artDir = <<>> /\ ledger = <<>> /\ outDir = <<>>
       \/ /\ pdfDir = <<>>
          /\ mdDir \in Dirs(MdNames, {"cached"})
          /\ artDir \in ArtDirs
          /\ ledger \in Ledgers
          /\ outDir \in Dirs(MdNames, {"old example"})
    /\ stage = "idle" /\ RunIdle

NotRunning == stage \in {"idle", "converted", "generated"}

\* the run that has just ended, as the next run finds it
Ended ==
    IF stage \in {"converted", "generated"}
    THEN [stage |-> stage,
          failed |-> \E k \in 1..Len(events) : events[k].what = "failed",
          work |-> cnt.extract + cnt.fetch + cnt.agent > 0]
    ELSE NoPrev

\* convert_all_pdfs: pdf_files = sorted(input_dir.glob("*.pdf")); converted = []
ConvertStart ==
    /\ NotRunning
    /\ items' = Sorted(Glob(pdfDir, "pdf"))
    /\ idx' = 1
    /\ acc' = <<>> /\ cnt' = NoCalls /\ written' = {} /\ events' = <<>>
    /\ before' = mdDir
    /\ prev' = Ended
    /\ deleted' = NoName /\ regen' = NoName
    /\ stage' = "convert"
    /\ UNCHANGED <<fsVars, linkVars, cpVars, rsVars, caVars, scVars, ssVars>>

\* one iteration of the loop of convert_all_pdfs
ConvertItem ==
    /\ stage = "convert" /\ idx <= Len(items)
    /\ \E ioOk \in BOOLEAN :
        LET st == ConvertStep(items[idx], pdfDir, mdDir, ioOk) IN
        /\ mdDir' = st.dir
        /\ acc' = acc \o st.add
        /\ cnt' = AddCalls(cnt, st.calls)
        /\ written' = written \cup st.wrote
        /\ events' = Append(events, [file |-> items[idx], what |-> st.what, id |-> idx,
                                     pid |-> 0, calls |-> st.calls])
    /\ idx' = idx + 1
    /\ UNCHANGED <<pdfDir, artDir, ledger, outDir, stage, items, before, prev, deleted, regen>>
    /\ UNCHANGED <<linkVars, cpVars, rsVars, caVars, scVars, ssVars>>

\* convert_all_pdfs: return converted (at once when there is no PDF)
ConvertReturn ==
    /\ stage = "convert" /\ idx > Len(items)
    /\ stage' = "converted"
    /\ UNCHANGED <<fsVars, items, idx, acc, cnt, written, events, before, prev, deleted, regen>>
    /\ UNCHANGED <<linkVars, cpVars, rsVars, caVars, scVars, ssVars>>

\* generate_all_examples: load the ledger, keep the real-world entries
GenerateStart ==
    /\ NotRunning
    /\ items' = RealWorld(ledger)
    /\ idx' = 1
    /\ acc' = <<>> /\ cnt' = NoCalls /\ written' = {} /\ events' = <<>>
    /\ before' = outDir
    /\ prev' = Ended
    /\ regen' = deleted /\ deleted' = NoName
    /\ stage' = "generate"
    /\ UNCHANGED <<fsVars, linkVars, cpVars, rsVars, caVars, scVars, ssVars>>

\* one iteration of the loop of generate_all_examples
GenerateItem ==
    /\ stage = "generate" /\ idx <= Len(items)
    /\ \E env \in Envs :
        LET st == GenerateStep(items[idx], idx, Len(items), artDir, mdDir, outDir, env) IN
        /\ outDir' = st.dir
        /\ acc' = acc \o st.add
        /\ cnt' = AddCalls(cnt, st.calls)
        /\ written' = written \cup st.wrote
        /\ events' = Append(events, [file |-> items[idx].file, what |-> st.what, id |-> idx,
                                     pid |-> IF st.calls.agent > 0 THEN PaperId(idx) ELSE 0,
                                     calls |-> st.calls])
    /\ idx' = idx + 1
    /\ UNCHANGED <<pdfDir, mdDir, artDir, ledger, stage, items, before, prev, deleted, regen>>
    /\ UNCHANGED <<linkVars, cpVars, rsVars, caVars, scVars, ssVars>>

\* generate_all_examples: return generated
GenerateReturn ==
    /\ stage = "generate" /\ idx > Len(items)
    /\ stage' = "generated"
    /\ UNCHANGED <<fsVars, items, idx, acc, cnt, written, events, before, prev, deleted, regen>>
    /\ UNCHANGED <<linkVars, cpVars, rsVars, caVars, scVars, ssVars>>

\* the files generate_all_examples is to produce for the current ledger
Wanted == {RealWorld(ledger)[k].file : k \in 1..Len(RealWorld(ledger))}

\* between two runs somebody deletes one generated example
DeleteOutput ==
    /\ NotRunning
    /\ \E f \in DOMAIN outDir :
        /\ outDir' = Remove(outDir, f)
        /\ deleted' = IF f \in Wanted /\ Wanted \subseteq DOMAIN outDir THEN f ELSE NoName
    /\ stage' = "idle"
    /\ UNCHANGED <<pdfDir, mdDir, artDir, ledger, items, idx, acc, cnt, written, events,
                   before, prev, regen>>
    /\ UNCHANGED <<linkVars, cpVars, rsVars, caVars, scVars, ssVars>>

(***************************************************************************)
(* cli.py: scrape; document.py: slugify, download_pdf; models.py: save     *)
(***************************************************************************)
\* the characters titles are made of
LowerChar(c) == IF c = "A" THEN "a" ELSE IF c = "B" THEN "b" ELSE c
IsSpace(c) == c = " "
\* \w: letters, digits and the underscore
IsWord(c) == c \in {"A", "B", "a", "b", "2", "_"}
\* [\s_-]
IsSeparator(c) == c \in {" ", "_", "-"}

RECURSIVE StripLeft(_)
StripLeft(t) == IF t # <<>> /\ IsSpace(t[1]) THEN StripLeft(Tail(t)) ELSE t

RECURSIVE StripRight(_)
StripRight(t) ==
    IF t # <<>> /\ IsSpace(t[Len(t)]) THEN StripRight(SubSeq(t, 1, Len(t) - 1)) ELSE t

\* re.sub(r"[\s_-]+", "_", text), the result joined into one string
RECURSIVE Collapse(_)
Collapse(t) ==
    IF t = <<>> THEN ""
    ELSE IF IsSeparator(t[1])
        THEN IF Len(t) >= 2 /\ IsSeparator(t[2])
            THEN Collapse(Tail(t))
            ELSE "_" \o Collapse(Tail(t))
    ELSE t[1] \o Collapse(Tail(t))

SLUG_MAX == 80

\* slugify(text): lower, strip, drop what is neither word, space nor hyphen,
\* collapse the separators, keep the first 80 characters
Slugify(text) ==
    LET lowered == [i \in 1..Len(text) |-> LowerChar(text[i])]
        stripped == StripRight(StripLeft(lowered))
        kept == SelectSeq(stripped, LAMBDA c : IsWord(c) \/ IsSpace(c) \/ c = "-")
        slug == Collapse(kept)
    IN  SubSeq(slug, 1, Min2(SLUG_MAX, Len(slug)))

Art(title, url) == [title |-> title, url |-> url]

\* mutant of KeyOf: every record is keyed by the slug of the title
KeyOfTitle(article) == <<Slugify(article.title)>>

\* the metadata key of an article: the stem of the last segment of its document
\* URL, or the slug of its title
KeyOf(article) ==
    IF article.url # NoUrl THEN Stem(LastSegment(article.url))
    ELSE <<Slugify(article.title)>>

\* mutant of SaveIfNew: the record is written whether it exists or not
SaveAlways(dir, name, article) == Write(dir, name, article)

\* scrape: if not json_path.exists(): article.save(json_path)
SaveIfNew(dir, name, article) ==
    IF Exists(dir, name) THEN dir ELSE Write(dir, name, article)

\* what a downloaded file holds, and what a file written before the run holds
NewBytes == "new bytes"
OldBytes == "old bytes"
PartialBytes == "partial bytes"

\* what requests.get, raise_for_status and write_bytes may do
NetOutcomes == {"ok", "request error", "http error", "open error", "write error"}

Download(dir, returned, requests, what) ==
    [dir |-> dir, returned |-> returned, requests |-> requests, what |-> what]

\* mutant of DownloadSkips: the existence check is lost
DownloadSkipsNever(dir, filename) == FALSE

\* download_pdf: if output_path.exists() ... return output_path
DownloadSkips(dir, filename) == Exists(dir, filename)

\* mutant of DownloadPdf: a failed request is sent a second time
DownloadPdfRetrying(url, dir, net) ==
    LET filename == LastSegment(url) IN
    IF DownloadSkips(dir, filename) THEN Download(dir, TRUE, 0, "exists")
    ELSE IF net \in {"request error", "http error"} THEN Download(dir, FALSE, 2, "failed")
    ELSE IF net = "open error" THEN Download(dir, FALSE, 1, "raised")
    ELSE IF net = "write error"
        THEN Download(Write(dir, filename, PartialBytes), FALSE, 1, "raised")
    ELSE Download(Write(dir, filename, NewBytes), TRUE, 1, "ok")

\* download_pdf(url, output_dir): returned tells whether a path (not None) is
\* returned; an OSError of write_bytes is not a RequestException and leaves the
\* function
DownloadPdf(url, dir, net) ==
    LET filename == LastSegment(url) IN
    IF DownloadSkips(dir, filename) THEN Download(dir, TRUE, 0, "exists")
    ELSE IF net \in {"request error", "http error"} THEN Download(dir, FALSE, 1, "failed")
    ELSE IF net = "open error" THEN Download(dir, FALSE, 1, "raised")
    ELSE IF net = "write error"
        THEN Download(Write(dir, filename, PartialBytes), FALSE, 1, "raised")
    ELSE Download(Write(dir, filename, NewBytes), TRUE, 1, "ok")

OtherHost == <<"y", "org">>

\* the articles a listing may yield: two with the same last URL segment, two
\* whose titles have the same slug
Articles ==
    { Art(<<"A", " ", "B">>, <<Host, <<"p1", "pdf">>>>),
      Art(<<"B", "2">>, <<OtherHost, <<"papers">>, <<"p1", "pdf">>>>),
      Art(<<"A", " ", "B">>, NoUrl),
      Art(<<" ", "a", "-", "_", "b", "!">>, NoUrl) }

MaxArticles == 2

Listings == UNION { [1..n -> Articles] : n \in 0..MaxArticles }

ScPdfNames == {<<"p1", "pdf">>, <<"p2", "pdf">>}

ScIdle ==
    /\ scListing = <<>> /\ scArtDir = <<>> /\ scPdfDir = <<>> /\ scI = 0
    /\ scDownloaded = 0 /\ scRequests = 0 /\ scEvents = <<>> /\ scPc = "idle"

ScStart ==
    /\ scListing = <<>> /\ scArtDir = <<>>
    /\ scPdfDir \in Dirs(ScPdfNames, {OldBytes})
    /\ scI = 0 /\ scDownloaded = 0 /\ scRequests = 0 /\ scEvents = <<>>
    /\ scPc = "start"

\* scrape: articles = scraper.scrape(); downloaded = 0
ScrapeRun(listings) ==
    /\ scPc \in {"start", "done", "raised"}
    /\ scListing' \in listings
    /\ scI' = 1 /\ scDownloaded' = 0 /\ scRequests' = 0 /\ scEvents' = <<>>
    /\ scPc' = "loop"
    /\ UNCHANGED <<scArtDir, scPdfDir>>
    /\ UNCHANGED <<linkVars, cpVars, rsVars, caVars, batchVars, ssVars>>

ScrapeBegin == ScrapeRun(Listings)

\* one iteration of the loop of scrape: save the record if new, download, sleep
ScrapeItem ==
    /\ scPc = "loop" /\ scI <= Len(scListing)
    /\ LET article == scListing[scI]
           jsonName == WithExt(KeyOf(article), "json")
           hasUrl == article.url # NoUrl
       IN  /\ scArtDir' = SaveIfNew(scArtDir, jsonName, article)
           /\ \E net \in NetOutcomes :
               LET d == IF hasUrl THEN DownloadPdf(article.url, scPdfDir, net)
                        ELSE Download(scPdfDir, FALSE, 0, "none")
                   slept == hasUrl /\ d.what # "raised" /\ scI < Len(scListing)
               IN  /\ scPdfDir' = d.dir
                   /\ scRequests' = scRequests + d.requests
                   /\ scDownloaded' = scDownloaded + (IF d.returned THEN 1 ELSE 0)
                   /\ scEvents' = Append(scEvents,
                          [key |-> KeyOf(article), saved |-> ~Exists(scArtDir, jsonName),
                           dl |-> d.what, requests |-> d.requests, slept |-> slept])
                   /\ scPc' = IF d.what = "raised" THEN "raised" ELSE "loop"
    /\ scI' = scI + 1
    /\ UNCHANGED scListing
    /\ UNCHANGED <<linkVars, cpVars, rsVars, caVars, batchVars, ssVars>>

\* scrape: the loop is over, the summary is printed
ScrapeEnd ==
    /\ scPc = "loop" /\ scI > Len(scListing)
    /\ scPc' = "done"
    /\ UNCHANGED <<scListing, scArtDir, scPdfDir, scI, scDownloaded, scRequests, scEvents>>
    /\ UNCHANGED <<linkVars, cpVars, rsVars, caVars, batchVars, ssVars>>

(***************************************************************************)
(* cli.py and tasks/generate.py: generate_from_url                         *)
(***************************************************************************)
\* url.lower().endswith(".pdf")
EndsWithPdf(url) ==
    LET name == LastSegment(url) IN Len(name) >= 2 /\ LowerChunk(name[Len(name)]) = "pdf"

FullArticle(title, authors, venue, url, lnks) ==
    [title |-> title, authors |-> authors, venue |-> venue, url |-> url, links |-> lnks]

NoArticle == FullArticle("", <<>>, "", NoUrl, <<>>)

\* Article(title="Unknown Title", authors=["Unknown Author"],
\*         venue="Unknown Venue", pdf_url=url, links={"PDF": url})
StubArticle(url) ==
    FullArticle("Unknown Title", <<"Unknown Author">>, "Unknown Venue", url,
                <<[label |-> "PDF", url |-> url]>>)

NoDoc == [id |-> "none", len |-> 0]

\* one call of the run: the scraper, fetch_and_extract, agent.ask of
\* classify_paper, agent.ask of generate_example, mkdir, write_text
Call(ev, ok, url, doc, id) == [ev |-> ev, ok |-> ok, url |-> url, doc |-> doc, id |-> id]

\* what scraper.scrape() does: it raises, or it returns articles
Scraped(raises, articles) == [raises |-> raises, articles |-> articles]

\* what the fetch step ends with
Fetch(ok, article, text, log, exc) ==
    [ok |-> ok, article |-> article, text |-> text, log |-> log, exc |-> exc]

\* fetch_and_extract(url) and the stub article
FetchDirect(url, fetchOk, text, log) ==
    IF fetchOk
    THEN Fetch(TRUE, StubArticle(url), text, Append(log, Call("fetch", TRUE, url, NoDoc, 0)), None)
    ELSE Fetch(FALSE, NoArticle, NoDoc, Append(log, Call("fetch", FALSE, url, NoDoc, 0)),
               "RequestException")

\* mutant of FirstArticle: the first article that has a document URL is taken
FirstArticleWithUrl(articles) ==
    IF \E i \in 1..Len(articles) : articles[i].url # NoUrl
    THEN articles[CHOOSE i \in 1..Len(articles) :
                    /\ articles[i].url # NoUrl
                    /\ \A j \in 1..(i - 1) : articles[j].url = NoUrl]
    ELSE articles[1]

\* article = articles[0]
FirstArticle(articles) == articles[1]

\* scraper.scrape() raises inside the outer try: the run ends
ScraperRaised(url, scraper, fetchOk, text, log) ==
    Fetch(FALSE, NoArticle, NoDoc, log, "RequestException")

\* step 1 of generate_from_url
FetchStep(url, scraper, fetchOk, text) ==
    LET afterScrape == <<Call("scrape", ~scraper.raises, url, NoDoc, 0)>>
        first == FirstArticle(scraper.articles)
    IN  IF EndsWithPdf(url) THEN FetchDirect(url, fetchOk, text, <<>>)
        ELSE IF scraper.raises THEN ScraperRaised(url, scraper, fetchOk, text, afterScrape)
        ELSE IF scraper.articles = <<>> THEN FetchDirect(url, fetchOk, text, afterScrape)
        ELSE IF first.url = NoUrl
            THEN Fetch(FALSE, NoArticle, NoDoc, afterScrape, "NoPdfUrl")
        ELSE IF fetchOk
            THEN Fetch(TRUE, first, text,
                       Append(afterScrape, Call("fetch", TRUE, first.url, NoDoc, 0)), None)
        ELSE Fetch(FALSE, NoArticle, NoDoc,
                   Append(afterScrape, Call("fetch", FALSE, first.url, NoDoc, 0)),
                   "RequestException")

\* mutant of SkipsClassify: the classify step runs whatever force is
SkipsClassifyNever(force) == FALSE

\* if not force_generate: ... classify_paper(text, agent)
SkipsClassify(force) == force

\* mutant of GenerateDoc: generate_example is given the truncated text
GenerateDocTruncated(text) == Prefix(text, MAX_CHARS)

\* generate_example: agent.ask(text, prompt, ...)
GenerateDoc(text) == text

\* mutant of VerdictAllows: a negative verdict does not stop the run
VerdictAllowsAlways(outcome) == outcome.kind = "return"

\* if classification["is_real_world_application"]: go on, else: raise
VerdictAllows(outcome) == outcome.kind = "return" /\ outcome.rw

NoFile == "no file"
OldExample == "old example"
PartialExample == "partial example"

SsUrls ==
    { <<Host, <<"p1", "pdf">>>>, <<Host, <<"p1", "PDF">>>>, <<Host, <<"list", "html">>>>,
      <<Host, <<"p3">>>> }

ListedWithUrl ==
    FullArticle("A B", <<"X">>, "V", <<Host, <<"p2", "pdf">>>>,
                <<[label |-> "PDF", url |-> <<Host, <<"p2", "pdf">>>>]>>)
ListedWithoutUrl == FullArticle("B2", <<"Y">>, "V", NoUrl, <<>>)

SsScrapers ==
    { Scraped(TRUE, <<>>), Scraped(FALSE, <<>>),
      Scraped(FALSE, <<ListedWithUrl>>), Scraped(FALSE, <<ListedWithoutUrl>>),
      Scraped(FALSE, <<ListedWithUrl, ListedWithoutUrl>>),
      Scraped(FALSE, <<ListedWithoutUrl, ListedWithUrl>>) }

\* mutant of DefaultForce: the library classifies unless told otherwise
DefaultForceFalse(impl) == FALSE

\* the default of force_generate: True in tasks/generate.py, False for --force
DefaultForce(impl) == impl = "lib"

\* given tells whether the caller passed force_generate; force is its value
SsInputs ==
    { in \in [impl : {"cli", "lib"}, key : BOOLEAN, url : SsUrls, given : BOOLEAN,
              force : BOOLEAN, scraper : SsScrapers, before : {NoFile, OldExample}] :
        /\ in.impl = "cli" => in.key
        /\ ~in.given => in.force = DefaultForce(in.impl) }

NoInput ==
    [impl |-> "none", key |-> FALSE, url |-> NoUrl, given |-> FALSE, force |-> FALSE,
     scraper |-> Scraped(FALSE, <<>>), before |-> NoFile]

SsIdle ==
    /\ ssIn = NoInput /\ ssArticle = NoArticle /\ ssText = NoDoc
    /\ ssVerdict = NoOutcome /\ ssOut = NoFile
    /\ ssLog = <<>> /\ ssExc = None /\ ssPc = "idle"

SsStart ==
    /\ ssIn \in SsInputs
    /\ ssArticle = NoArticle /\ ssText = NoDoc /\ ssVerdict = NoOutcome
    /\ ssOut = ssIn.before
    /\ ssLog = <<>> /\ ssExc = None /\ ssPc = "start"

\* the library checks ANTHROPIC_API_KEY; then output_path.parent.mkdir(...)
SingleShotBegin ==
    /\ ssPc = "start"
    /\ IF ssIn.impl = "lib" /\ ~ssIn.key
       THEN /\ ssPc' = "raised" /\ ssExc' = "RuntimeError" /\ ssLog' = ssLog
       ELSE /\ ssPc' = "fetch" /\ ssExc' = ssExc
            /\ ssLog' = Append(ssLog, Call("mkdir", TRUE, NoUrl, NoDoc, 0))
    /\ UNCHANGED <<ssIn, ssArticle, ssText, ssVerdict, ssOut>>
    /\ UNCHANGED <<linkVars, cpVars, rsVars, caVars, batchVars, scVars>>

\* step 1: get the paper text
SingleShotFetch ==
    /\ ssPc = "fetch"
    /\ \E fetchOk \in BOOLEAN, text \in Texts :
        LET f == FetchStep(ssIn.url, ssIn.scraper, fetchOk, text) IN
        /\ ssArticle' = f.article
        /\ ssText' = f.text
        /\ ssLog' = ssLog \o f.log
        /\ ssExc' = f.exc
        /\ ssPc' = IF ~f.ok THEN "raised"
                   ELSE IF SkipsClassify(ssIn.force) THEN "generate" ELSE "classify"
    /\ UNCHANGED <<ssIn, ssVerdict, ssOut>>
    /\ UNCHANGED <<linkVars, cpVars, rsVars, caVars, batchVars, scVars>>

\* step 2: classify the paper
SingleShotClassify ==
    /\ ssPc = "classify"
    /\ \E reply \in CaReplies \cup {NoReply} :
        LET outcome == ClassifyPaperResult(ssText, reply) IN
        /\ NeedsAgent(ssText) <=> reply \in CaReplies
        /\ ssVerdict' = outcome
        /\ ssLog' = IF NeedsAgent(ssText)
                    THEN Append(ssLog, Call("classify", ~reply.err, NoUrl,
                                            Prefix(ssText, MAX_CHARS), 0))
                    ELSE ssLog
        /\ ssPc' = IF VerdictAllows(outcome) THEN "generate" ELSE "raised"
        /\ ssExc' = IF VerdictAllows(outcome) THEN ssExc
                    ELSE IF outcome.kind = "raise" THEN outcome.exc
                    ELSE "NotRealWorld"
    /\ UNCHANGED <<ssIn, ssArticle, ssText, ssOut>>
    /\ UNCHANGED <<linkVars, cpVars, rsVars, caVars, batchVars, scVars>>

\* mutant of AfterGenerate: the persist step follows a failed generate too
AfterGenerateAlwaysPersist(agentOk) == "persist"

\* an exception of generate_example leaves the try block before step 4
AfterGenerate(agentOk) == IF agentOk THEN "persist" ELSE "raised"

\* step 3: generate_example(article, text, paper_id=1, agent=agent)
SingleShotGenerate ==
    /\ ssPc = "generate"
    /\ \E agentOk \in BOOLEAN :
        /\ ssLog' = Append(ssLog, Call("generate", agentOk, NoUrl, GenerateDoc(ssText), 1))
        /\ ssPc' = AfterGenerate(agentOk)
        /\ ssExc' = IF agentOk THEN ssExc ELSE "AgentError"
    /\ UNCHANGED <<ssIn, ssArticle, ssText, ssVerdict, ssOut>>
    /\ UNCHANGED <<linkVars, cpVars, rsVars, caVars, batchVars, scVars>>

\* step 4: output_path.write_text(result)
SingleShotPersist ==
    /\ ssPc = "persist"
    /\ \E io \in {"ok", "open error", "write error"} :
        /\ ssLog' = Append(ssLog, Call("write", io = "ok", NoUrl, NoDoc, 0))
        /\ ssOut' = IF io = "ok" THEN Generated
                    ELSE IF io = "write error" THEN PartialExample ELSE ssOut
        /\ ssPc' = IF io = "ok" THEN "done" ELSE "raised"
        /\ ssExc' = IF io = "ok" THEN ssExc ELSE "OSError"
    /\ UNCHANGED <<ssIn, ssArticle, ssText, ssVerdict>>
    /\ UNCHANGED <<linkVars, cpVars, rsVars, caVars, batchVars, scVars>>

(***************************************************************************)
(* cli.py: scrape, convert, classify, generate run one after the other     *)
(* over one set of directories                                             *)
(***************************************************************************)
\* the articles of the listing the pipeline starts from: three with a document,
\* two of them under the same file name, the file stem of the third being the
\* slug of two of the three without
PlArticles ==
    { Art(<<"A", " ", "B">>, <<Host, <<"p1", "pdf">>>>),
      Art(<<"B", "2">>, <<OtherHost, <<"papers">>, <<"p1", "pdf">>>>),
      Art(<<"B">>, <<Host, <<"a_b", "pdf">>>>),
      Art(<<"A", " ", "B">>, NoUrl),
      Art(<<" ", "a", "-", "_", "b", "!">>, NoUrl),
      Art(<<"B", "2">>, NoUrl) }

PlListings == UNION { [1..n -> PlArticles] : n \in 0..MaxArticles }

\* the texts extract_text_from_pdf may have written: too short for
\* classify_paper, or long enough
PlTexts == { [id |-> "t1", len |-> MIN_CHARS - 1], [id |-> "t1", len |-> MIN_CHARS] }

\* the articles directory and the PDF directory are empty
PlStart ==
    /\ scListing = <<>> /\ scArtDir = <<>> /\ scPdfDir = <<>>
    /\ scI = 0 /\ scDownloaded = 0 /\ scRequests = 0 /\ scEvents = <<>>
    /\ scPc = "start"

\* scrape, run once
PlScrapeBegin == scPc = "start" /\ ScrapeRun(PlListings)

\* convert --input-dir is the --pdf-dir of scrape ("pdfs"), generate
\* --articles-dir its --articles-dir ("articles"): the files scrape left are the
\* files convert_all_pdfs and generate_all_examples find; a complete download
\* may or may not be a document pymupdf can open, a partial one is not
HandToConvert ==
    /\ scPc \in {"done", "raised"} /\ stage = "off"
    /\ pdfDir' \in { d \in [DOMAIN scPdfDir -> {"good", "corrupt"}] :
                        \A n \in DOMAIN scPdfDir :
                            scPdfDir[n] = PartialBytes => d[n] = "corrupt" }
    /\ artDir' = [n \in DOMAIN scArtDir |-> [valid |-> TRUE, url |-> scArtDir[n].url]]
    /\ stage' = "idle"
    /\ scPc' = "handed"
    /\ UNCHANGED <<mdDir, ledger, outDir, items, idx, acc, cnt, written, events, before,
                   prev, deleted, regen>>
    /\ UNCHANGED <<scListing, scArtDir, scPdfDir, scI, scDownloaded, scRequests, scEvents>>
    /\ UNCHANGED <<linkVars, cpVars, rsVars, caVars, ssVars>>

\* convert, run once
PlConvertStart == stage = "idle" /\ ConvertStart

\* classify --input-dir is the --output-dir of convert ("pdfs_as_md"): the
\* files convert_all_pdfs wrote are the files classify_all_papers reads
HandToClassify ==
    /\ stage = "converted" /\ caPc = "idle"
    /\ caDir' \in [DOMAIN mdDir -> PlTexts]
    /\ caLedger' = NoLedger
    /\ caPc' = "start"
    /\ UNCHANGED <<caFiles, caI, caResults, caReturned, caCalls, caSleeps, caEvents>>
    /\ UNCHANGED <<linkVars, cpVars, rsVars, batchVars, scVars, ssVars>>

\* generate --classifications is the --output of classify: the ledger
\* classify_all_papers wrote is the one generate_all_examples loads
HandToGenerate ==
    /\ caPc = "done" /\ stage = "converted"
    /\ ledger' = caLedger.entries
    /\ caPc' = "handed"
    /\ UNCHANGED <<caDir, caLedger, caFiles, caI, caResults, caReturned, caCalls,
                   caSleeps, caEvents>>
    /\ UNCHANGED <<pdfDir, mdDir, artDir, outDir, runVars>>
    /\ UNCHANGED <<linkVars, cpVars, rsVars, scVars, ssVars>>

\* generate, run once
PlGenerateStart == caPc = "handed" /\ stage = "converted" /\ GenerateStart

(***************************************************************************)
(* The specifications                                                      *)
(***************************************************************************)
InitLink == LinkStart /\ CpIdle /\ RsIdle /\ CaIdle /\ BatchIdle /\ ScIdle /\ SsIdle
NextLink == FormatMetadataBlock
SpecLink == InitLink /\ [][NextLink]_vars

InitClassify == CpStart /\ LinkIdle /\ RsIdle /\ CaIdle /\ BatchIdle /\ ScIdle /\ SsIdle
NextClassify == ClassifyPaperShort \/ ClassifyPaperAsk
SpecClassify == InitClassify /\ [][NextClassify]_vars

InitResolve == RsStart /\ LinkIdle /\ CpIdle /\ CaIdle /\ BatchIdle /\ ScIdle /\ SsIdle
NextResolve == ResolveCall
SpecResolve == InitResolve /\ [][NextResolve]_vars

InitClassifyAll == CaStart /\ LinkIdle /\ CpIdle /\ RsIdle /\ BatchIdle /\ ScIdle /\ SsIdle
NextClassifyAll == ClassifyAllStart \/ ClassifyAllItem \/ ClassifyAllWrite
SpecClassifyAll == InitClassifyAll /\ [][NextClassifyAll]_vars

InitBatch == BatchStart /\ LinkIdle /\ CpIdle /\ RsIdle /\ CaIdle /\ ScIdle /\ SsIdle
NextBatch ==
    \/ ConvertStart \/ ConvertItem \/ ConvertReturn
    \/ GenerateStart \/ GenerateItem \/ GenerateReturn
    \/ DeleteOutput
SpecBatch == InitBatch /\ [][NextBatch]_vars

InitScrape == ScStart /\ LinkIdle /\ CpIdle /\ RsIdle /\ CaIdle /\ BatchIdle /\ SsIdle
NextScrape == ScrapeBegin \/ ScrapeItem \/ ScrapeEnd
SpecScrape == InitScrape /\ [][NextScrape]_vars

\* the stages of the pipeline, each run over its own directories
InitStages ==
    /\ \/ ScStart /\ BatchIdle /\ CaIdle /\ SsIdle
       \/ BatchStart /\ ScIdle /\ CaIdle /\ SsIdle
       \/ CaStart /\ ScIdle /\ BatchIdle /\ SsIdle
       \/ SsStart /\ ScIdle /\ BatchIdle /\ CaIdle
    /\ LinkIdle /\ CpIdle /\ RsIdle
NextStages ==
    \/ ScrapeBegin \/ ScrapeItem \/ ScrapeEnd
    \/ ConvertStart \/ ConvertItem \/ ConvertReturn
    \/ ClassifyAllStart \/ ClassifyAllItem \/ ClassifyAllWrite
    \/ GenerateStart \/ GenerateItem \/ GenerateReturn
    \/ DeleteOutput
    \/ SingleShotBegin \/ SingleShotFetch \/ SingleShotClassify
    \/ SingleShotGenerate \/ SingleShotPersist
SpecStages == InitStages /\ [][NextStages]_vars

InitPipeline == PlStart /\ LinkIdle /\ CpIdle /\ RsIdle /\ CaIdle /\ BatchIdle /\ SsIdle
NextPipeline ==
    \/ PlScrapeBegin \/ ScrapeItem \/ ScrapeEnd
    \/ HandToConvert \/ PlConvertStart \/ ConvertItem \/ ConvertReturn
    \/ HandToClassify \/ ClassifyAllStart \/ ClassifyAllItem \/ ClassifyAllWrite
    \/ HandToGenerate \/ PlGenerateStart \/ GenerateItem \/ GenerateReturn
SpecPipeline == InitPipeline /\ [][NextPipeline]_vars

InitSingleShot == SsStart /\ LinkIdle /\ CpIdle /\ RsIdle /\ CaIdle /\ BatchIdle /\ ScIdle
NextSingleShot ==
    \/ SingleShotBegin \/ SingleShotFetch \/ SingleShotClassify
    \/ SingleShotGenerate \/ SingleShotPersist
SpecSingleShot == InitSingleShot /\ [][NextSingleShot]_vars

(***************************************************************************)
(* Claims about classify_paper (SpecClassify)                              *)
(***************************************************************************)
CpAnswered == cpPc = "done" /\ cpCalls = 1 /\ ~cpRaw.err

IsBrace(t) == t \in {"{", "}"}

\* s[i..j] spells a JSON object holding the key is_real_world_application
ObjectAt(s, i, j) ==
    /\ 1 <= i /\ i + 1 < j /\ j <= Len(s)
    /\ s[i] = "{" /\ s[j] = "}"
    /\ s[i + 1] \in {"K1", "K0"}
    /\ \A k \in (i + 2)..(j - 1) : s[k] = "R"

\* the answer parses to a verdict, as a whole or between its first "{" and last "}"
Parsable(s) ==
    \E i, j \in 1..Len(s) :
        /\ ObjectAt(s, i, j)
        /\ \A k \in 1..Len(s) : (k < i \/ k > j) => ~IsBrace(s[k])

IsParseError(out) ==
    /\ out.kind = "return" /\ out.rw = FALSE
    /\ Len(out.reason) >= 1 /\ out.reason[1] = "parse error: "

\* C6: classify_paper never raises because of the content of the agent's answer;
\* whenever the answer cannot be parsed even after brace extraction it returns
\* is_real_world_application = false with a reason starting with "parse error: ".
C6_NeverRaisesOnAnswer ==
    CpAnswered =>
        /\ cpOut.kind = "return"
        /\ ~Parsable(cpRaw.raw) => IsParseError(cpOut)

\* C7: an answer that is prose around a JSON object with the expected keys yields
\* that object's verdict and reason; an answer without any brace yields false
\* with a "parse error: " reason.
C7_BraceExtraction ==
    CpAnswered =>
        /\ \A i, j \in 1..Len(cpRaw.raw) :
            ( /\ ObjectAt(cpRaw.raw, i, j)
              /\ i > 1 \/ j < Len(cpRaw.raw)
              /\ \A k \in 1..Len(cpRaw.raw) : (k < i \/ k > j) => ~IsBrace(cpRaw.raw[k]) )
            => cpOut = Returned(cpRaw.raw[i + 1] = "K1",
                                IF j > i + 2 THEN <<"ok">> ELSE <<"">>)
        /\ (\A k \in 1..Len(cpRaw.raw) : ~IsBrace(cpRaw.raw[k])) => IsParseError(cpOut)

\* The part of C7 the code keeps: the same statement for the answers that are not
\* valid JSON as a whole.
C7_OutsideBug ==
    (CpAnswered /\ ~JsonLoads(cpRaw.raw).ok) => C7_BraceExtraction

\* C8: a text shorter than MIN_CHARS is answered false, "too short", with no
\* agent call; a text of MIN_CHARS characters or more costs exactly one agent call.
C8_ShortCircuit ==
    cpPc = "done" =>
        /\ cpText.len < MIN_CHARS =>
            (cpOut = Returned(FALSE, TooShortReason) /\ cpCalls = 0)
        /\ cpText.len >= MIN_CHARS => cpCalls = 1

C8_Witness ==
    /\ cpPc = "done" /\ cpText.len = MIN_CHARS - 1
    /\ cpOut = Returned(FALSE, TooShortReason) /\ cpCalls = 0

(***************************************************************************)
(* Claims about the link choice (SpecLink)                                 *)
(***************************************************************************)
\* C9: the chosen link is (a) the URL of the first link whose label holds a
\* keyword, else (b) that of the first link whose label is not "pdf", else (c)
\* that of the first link, else (d) the sentinel.
C9_LinkPriority ==
    linkPc = "done" =>
        LET n == Len(links)
            kw == {i \in 1..n : HasKeyword(links[i].label)}
            np == {i \in 1..n : NotPdf(links[i].label)}
        IN  /\ \A i \in kw : (\A j \in kw : i <= j) => shown = links[i].url
            /\ kw = {} => \A i \in np : (\A j \in np : i <= j) => shown = links[i].url
            /\ (kw = {} /\ np = {} /\ n > 0) => shown = links[1].url
            /\ n = 0 => shown = Sentinel

C9_Witness ==
    /\ linkPc = "done" /\ Len(links) = 3
    /\ links[1].label = <<"pdf">> /\ links[2].label = <<"Slides">>
    /\ links[3].label = <<"PDF">>
    /\ shown = links[2].url

IsPdfAndDoi ==
    /\ Len(links) = 2
    /\ {links[1].label, links[2].label} = {<<"PDF">>, <<"DOI">>}

IsPdfOnly == Len(links) = 1 /\ links[1].label = <<"PDF">>

DoiUrl == IF links[1].label = <<"DOI">> THEN links[1].url ELSE links[2].url

\* C10 as stated: with a PDF and a DOI link the DOI URL is chosen; with only a
\* link labelled PDF the sentinel is chosen.
C10_Original ==
    linkPc = "done" =>
        /\ IsPdfAndDoi => shown = DoiUrl
        /\ IsPdfOnly => shown = Sentinel

\* C10 amended: with a PDF and a DOI link (either order) the DOI URL is chosen;
\* with only a link labelled PDF that link's URL is chosen, not the sentinel.
C10_PdfOnlyFallsBack ==
    linkPc = "done" =>
        /\ IsPdfAndDoi => shown = DoiUrl
        /\ IsPdfOnly => (shown = links[1].url /\ shown # Sentinel)

C10_Witness == linkPc = "done" /\ IsPdfOnly /\ shown = links[1].url

(***************************************************************************)
(* Claims about resolve_article_text (SpecResolve)                         *)
(***************************************************************************)
\* C1: for an article with a source URL and any cache directory: when the
\* directory holds "<stem of the URL's final segment>.md" the call returns that
\* file's content and fetches nothing; when it does not, the call fetches
\* exactly once and its outcome is that of the fetch, the extracted text.
C1_CacheBeforeNetwork ==
    (rsPc = "done" /\ rsUrl # NoUrl) =>
        LET md == MdNameOf(rsUrl)
        IN  /\ (rsDir.given /\ md \in DOMAIN rsDir.files) =>
                (rsOut = TextReturned(rsDir.files[md]) /\ rsFetches = 0)
            /\ ~(rsDir.given /\ md \in DOMAIN rsDir.files) =>
                /\ rsFetches = 1
                /\ rsFetchOk => rsOut = TextReturned(Fetched)
                /\ ~rsFetchOk => rsOut = TextRaised("FetchError")

C1_Witness ==
    /\ rsPc = "done"
    /\ rsUrl = <<Host, <<"p1", "v2", "pdf">>>>
    /\ rsDir.given
    /\ DOMAIN rsDir.files = {<<"p1", "md">>, <<"p1", "v2", "md">>, <<"p1", "pdf", "md">>}
    /\ MdNameOf(rsUrl) = <<"p1", "v2", "md">>
    /\ rsDir.files[<<"p1", "v2", "md">>] = "cached2"
    /\ rsDir.files[<<"p1", "md">>] = "cached1"
    /\ rsOut = TextReturned("cached2")
    /\ rsFetches = 0

\* C2: for an article without source URL the call ends in the error outcome,
\* whatever the cache directory: it returns no text and fetches nothing.
C2_NoUrlRaises ==
    (rsPc = "done" /\ rsUrl = NoUrl) =>
        /\ rsOut.kind = "raise"
        /\ rsOut.exc = "ValueError"
        /\ rsFetches = 0

C2_Witness ==
    /\ rsPc = "done" /\ rsUrl = NoUrl
    /\ rsDir.given /\ DOMAIN rsDir.files = RsMdNames
    /\ rsOut = TextRaised("ValueError")

(***************************************************************************)
(* Claims about classify_all_papers (SpecClassifyAll)                      *)
(***************************************************************************)
\* the text files of the directory
CaTextFiles == {n \in DOMAIN caDir : n[Len(n)] = "md"}

\* the item of this event failed: unreadable file, agent error, unparsable answer
CaFailed(ev) ==
    \/ ~ev.readable
    \/ ev.asked /\ (ev.reply.err \/ ~Parsable(ev.reply.raw))

IsErrorReason(reason) ==
    Len(reason) >= 1 /\ reason[1] \in {"error: ", "parse error: "}

\* C5: whatever fails per item, the returned list and the persisted ledger hold
\* exactly one result per text file, in the lexicographic order of the file
\* names, each naming its file; a failed item is there with
\* is_real_world_application = false and an error reason.
C5_OneResultPerFile ==
    caPc = "done" =>
        /\ caLedger = LedgerOf(caReturned)
        /\ Len(caReturned) = Cardinality(CaTextFiles)
        /\ {caReturned[i].file : i \in 1..Len(caReturned)} = CaTextFiles
        /\ \A i, j \in 1..Len(caReturned) :
            i < j => NameLess(caReturned[i].file, caReturned[j].file)
        /\ Len(caEvents) = Len(caReturned)
        /\ \A i \in 1..Len(caReturned) :
            /\ caEvents[i].file = caReturned[i].file
            /\ CaFailed(caEvents[i]) =>
                (caReturned[i].rw = FALSE /\ IsErrorReason(caReturned[i].reason))

C5_Witness ==
    /\ caPc = "done"
    /\ Len(caReturned) = 2
    /\ caReturned[1].file = <<"p1", "md">>
    /\ caReturned[2].file = <<"p1", "v2", "md">>
    /\ ~caEvents[1].readable
    /\ caEvents[2].asked /\ caEvents[2].reply = Reply(FALSE, <<"{", "P", "}">>)
    /\ caReturned[2] = Entry(<<"p1", "v2", "md">>, FALSE, <<"error: ", "JSONDecodeError">>)

(***************************************************************************)
(* Claims about convert_all_pdfs and generate_all_examples                 *)
(***************************************************************************)
\* a run of a batch stage has ended, and the run before it was a run of the same
\* stage with nothing changed in between
SecondRun == stage \in {"converted", "generated"} /\ prev.stage = stage

NoNewCalls == cnt.extract = 0 /\ cnt.fetch = 0 /\ cnt.agent = 0

\* the directory the stage writes to is as it was when the run started
OutputsSame ==
    /\ written = {}
    /\ DOMAIN (IF stage = "converted" THEN mdDir ELSE outDir) = DOMAIN before
    /\ \A f \in DOMAIN before :
        (IF stage = "converted" THEN mdDir ELSE outDir)[f] = before[f]

RegenOk == \E k \in 1..Len(events) : events[k].file = regen /\ events[k].what = "ok"

\* every example the run found is still there, unchanged
OthersUntouched ==
    /\ \A f \in DOMAIN before : f \in DOMAIN outDir /\ outDir[f] = before[f]
    /\ DOMAIN outDir \subseteq DOMAIN before \cup {regen}
    /\ written \subseteq {regen}

\* a generate_all_examples run that started right after one example was deleted
\* from a complete output directory has ended
Resumed == stage = "generated" /\ regen # NoName

RealWorldPosition(k) == Cardinality({j \in 1..k : ledger[j].rw})

\* C11: whenever generate_all_examples calls generate_example for a ledger entry,
\* the id it passes is the entry's 1-based position among the real-world entries
\* of the ledger, whatever happened to the other entries.
C11_IdIsRealWorldPosition ==
    \A e \in 1..Len(events) :
        (stage \in {"generate", "generated"} /\ events[e].pid # 0) =>
            \E k \in 1..Len(ledger) :
                /\ ledger[k].rw /\ ledger[k].file = events[e].file
                /\ events[e].pid = RealWorldPosition(k)

C11_Witness ==
    /\ stage = "generated"
    /\ Len(ledger) = 2 /\ ledger[1].rw /\ ledger[2].rw
    /\ events[1].what = "missing"
    /\ events[2].pid = 2 /\ events[2].what = "ok"

\* C12: a qualifying entry that has neither an output file nor an article record
\* is skipped: no text resolution, no fetch, no agent call, no output file, the
\* entry is not in the returned list, and the loop goes on to the next entry.
C12_MissingArticleSkipped ==
    \A e \in 1..Len(events) :
        (/\ stage \in {"generate", "generated"}
         /\ ~Exists(before, events[e].file)
         /\ ~Exists(artDir, WithExt(Stem(events[e].file), "json"))) =>
            /\ events[e].what = "missing"
            /\ events[e].calls.resolve = 0 /\ events[e].calls.fetch = 0
            /\ events[e].calls.agent = 0
            /\ ~Exists(outDir, events[e].file)
            /\ \A k \in 1..Len(acc) : acc[k] # events[e].file
            /\ (stage = "generated" => Len(events) = Len(items))
            /\ (stage = "generate" => idx = Len(events) + 1)

C12_Witness ==
    /\ stage = "generated"
    /\ Len(events) = 2
    /\ events[1].what = "missing"
    /\ events[2].what = "ok" /\ events[2].calls.agent = 1
    /\ acc = <<events[2].file>>

\* the set of the paths a run returned
ReturnedPaths == {acc[k] : k \in 1..Len(acc)}

\* C13: after any run of generate_all_examples the returned paths are exactly the
\* example files that exist in the output directory: no returned path lacks its
\* file and no existing example file is left out.
C13_ReturnIsExistingFiles ==
    stage = "generated" => ReturnedPaths = DOMAIN outDir

\* what holds instead: the returned paths are the existing files of the
\* real-world entries of the ledger
C13_AmongQualifying ==
    stage = "generated" => ReturnedPaths = DOMAIN outDir \cap Wanted

\* the last item processed failed in this step
ItemFailed ==
    /\ Len(events') = Len(events) + 1
    /\ events'[Len(events')].what = "failed"

TextsOfSources == {WithExt(Stem(n), "md") : n \in Glob(pdfDir, "pdf")}

\* C19: for every content of the source directory, an empty one included, and of
\* the cache directory, convert_all_pdfs returns all the text files that are in
\* the cache directory after the run, those that were there before and those it
\* produced.
C19_ReturnIsCacheContent ==
    stage = "converted" => ReturnedPaths = Glob(mdDir, "md")

\* what holds instead: the returned paths are the existing text files of the PDFs
\* of the source directory
C19_AmongSources ==
    stage = "converted" => ReturnedPaths = DOMAIN mdDir \cap TextsOfSources

C15_ScrapeAdditive ==
    [][\A n \in DOMAIN scArtDir :
            /\ n \in DOMAIN scArtDir'
            /\ scArtDir'[n] = scArtDir[n]]_vars

C15_Witness ==
    /\ scPc = "done"
    /\ scListing = <<Art(<<"B", "2">>, <<OtherHost, <<"papers">>, <<"p1", "pdf">>>>)>>
    /\ Exists(scArtDir, <<"p1", "json">>)
    /\ scArtDir[<<"p1", "json">>] = Art(<<"A", " ", "B">>, <<Host, <<"p1", "pdf">>>>)
    /\ scEvents[1].saved = FALSE

\* scrape processes an article whose document file is already in the directory
DownloadOfExisting ==
    /\ scPc = "loop" /\ scI' = scI + 1
    /\ scListing[scI].url # NoUrl
    /\ Exists(scPdfDir, LastSegment(scListing[scI].url))

\* convert_all_pdfs processes a PDF whose text file is already in the cache
ConvertOfExisting ==
    /\ stage = "convert" /\ idx' = idx + 1
    /\ Exists(mdDir, WithExt(Stem(items[idx]), "md"))

\* C16: download_pdf sends no request and leaves the file as it is when the file
\* exists at the target path, and convert_all_pdfs extracts nothing and leaves the
\* text file as it is when the text file of the stem exists; both report the
\* existing path (it is returned, it is appended to the returned list).
C16_SkipIfExists ==
    [][/\ DownloadOfExisting =>
            /\ scPdfDir' = scPdfDir
            /\ scRequests' = scRequests
            /\ scDownloaded' = scDownloaded + 1
       /\ ConvertOfExisting =>
            /\ mdDir' = mdDir
            /\ cnt'.extract = cnt.extract
            /\ written' = written
            /\ acc' = Append(acc, WithExt(Stem(items[idx]), "md"))]_vars

C16_Witness ==
    /\ scPc = "done"
    /\ Len(scEvents) = 2
    /\ scEvents[1].dl = "exists" /\ scEvents[2].dl = "exists"
    /\ scRequests = 0 /\ scDownloaded = 2
    /\ scPdfDir[<<"p1", "pdf">>] = OldBytes

\* C17: a failed download (request error, HTTP error status, failure writing the
\* file) never ends the scrape run: the run reaches its end having processed
\* every article, and the record saved for the failing article remains.
C17_DownloadFailureIsolated ==
    /\ scPc # "raised"
    /\ scPc = "done" => Len(scEvents) = Len(scListing)
    /\ \A k \in 1..Len(scEvents) :
        scEvents[k].dl \in {"failed", "raised"} =>
            Exists(scArtDir, WithExt(scEvents[k].key, "json"))

\* what holds instead: a request error or an HTTP error status is isolated, and
\* the record of the failing article remains also when the run is ended by a
\* failure writing the file
C17_RequestFailureIsolated ==
    /\ scPc = "done" => Len(scEvents) = Len(scListing)
    /\ scPc = "raised" => scEvents[Len(scEvents)].dl = "raised"
    /\ \A k \in 1..Len(scEvents) :
        /\ scEvents[k].dl \in {"failed", "raised"} =>
                Exists(scArtDir, WithExt(scEvents[k].key, "json"))
        /\ (scEvents[k].dl = "raised") => (k = Len(scEvents) /\ scPc = "raised")

\* C18: in a finished scrape run a delay is executed only when a further download
\* follows in the run, and between two successive downloads there is a delay.
C18_NoDelayAfterLastDownload ==
    scPc = "done" =>
        /\ \A k \in 1..Len(scEvents) :
            scEvents[k].slept => \E j \in (k + 1)..Len(scEvents) : scEvents[j].dl # "none"
        /\ \A j, k \in 1..Len(scEvents) :
            (j < k /\ scEvents[j].dl # "none" /\ scEvents[k].dl # "none") =>
                \E m \in j..(k - 1) : scEvents[m].slept

\* what holds instead: the delay follows every article that has a document URL,
\* unless the article is the last of the listing
C18_DelayUnlessLastItem ==
    scPc = "done" =>
        \A k \in 1..Len(scEvents) :
            scEvents[k].slept <=> (scEvents[k].dl # "none" /\ k < Len(scListing))

(***************************************************************************)
(* Claims about the single-shot pipeline                                   *)
(***************************************************************************)
\* the positions of the calls of one kind in the log of the run
CallsOf(ev) == {k \in 1..Len(ssLog) : ssLog[k].ev = ev}

\* the fetch step is over
PastFetch == ssPc \in {"classify", "generate", "persist", "done", "raised"} /\ CallsOf("mkdir") # {}

FetchSucceeded == \E k \in CallsOf("fetch") : ssLog[k].ok

\* the run is over
SsEnded == ssPc \in {"done", "raised"}

\* C21: with force set no classification call is made; after a successful fetch
\* the run makes exactly one agent call, the generate call with id 1, and the
\* output is written after that call has answered, never before.
C21_ForceSkipsClassify ==
    ssIn.force =>
        /\ CallsOf("classify") = {} /\ ssPc # "classify" /\ ssVerdict = NoOutcome
        /\ (SsEnded /\ FetchSucceeded) =>
            /\ Cardinality(CallsOf("generate")) = 1
            /\ \A g \in CallsOf("generate") : ssLog[g].id = 1
        /\ \A w \in CallsOf("write") : w >= 2 /\ ssLog[w - 1].ev = "generate" /\ ssLog[w - 1].ok
        /\ (SsEnded /\ \E g \in CallsOf("generate") : ssLog[g].ok) => CallsOf("write") # {}

C21_Witness ==
    /\ ssPc = "done" /\ ssIn.force
    /\ Len(ssLog) = 4
    /\ ssLog[2].ev = "fetch" /\ ssLog[3].ev = "generate" /\ ssLog[3].id = 1
    /\ ssLog[4].ev = "write"
    /\ ssOut = Generated

NegativeVerdict == ssVerdict.kind = "return" /\ ~ssVerdict.rw

\* C22: without force, a negative verdict of the classify step (the too-short
\* and the parse-error verdict included) ends the run with an error: there is
\* no generate call and the output path is not written.
C22_NegativeVerdictAborts ==
    (~ssIn.force /\ NegativeVerdict) =>
        /\ ssPc = "raised" /\ ssExc # None
        /\ CallsOf("generate") = {}
        /\ CallsOf("write") = {}
        /\ ssOut = ssIn.before

C22_Witness ==
    /\ ~ssIn.force /\ ssPc = "raised"
    /\ ssVerdict.kind = "return" /\ ssVerdict.reason[1] = "parse error: "
    /\ Cardinality(CallsOf("classify")) = 1
    /\ ssIn.before = OldExample /\ ssOut = OldExample

\* C23: the output path is written in the persist step only, after the fetch,
\* the classify step (when it runs) and the generate call have succeeded; after
\* a run that fails in one of these three the caller has the exception and the
\* output file is as it was before the run.
C23_AllOrNothing ==
    /\ [][ssOut' # ssOut => (ssPc = "persist" /\ ssLog'[Len(ssLog')].ev = "write")]_vars
    /\ [](CallsOf("write") # {} =>
            /\ FetchSucceeded
            /\ \E g \in CallsOf("generate") : ssLog[g].ok
            /\ ~ssIn.force => (ssVerdict.kind = "return" /\ ssVerdict.rw))
    /\ []((ssPc = "raised" /\ CallsOf("write") = {}) =>
            (ssExc # None /\ ssOut = ssIn.before))

C23_Witness ==
    /\ ssPc = "raised" /\ ssExc = "AgentError"
    /\ ssLog[Len(ssLog)].ev = "generate"
    /\ ssIn.before = OldExample /\ ssOut = OldExample
    /\ ~ssIn.force /\ ssVerdict.rw

\* the scraper was asked and returned a list
Listed == ~EndsWithPdf(ssIn.url) /\ ~ssIn.scraper.raises /\ PastFetch

\* C24: for a URL that does not end in .pdf: with zero articles the URL itself
\* is fetched and the stub article is used; with one or more articles only the
\* first is used and its text is fetched from its own document URL; a first
\* article without document URL ends the run with an error, without fetch and
\* without agent call, also when a later article has a document URL.
C24_FetchStepOfListing ==
    Listed =>
        LET articles == ssIn.scraper.articles IN
        /\ articles = <<>> =>
            /\ Cardinality(CallsOf("fetch")) = 1
            /\ \A k \in CallsOf("fetch") : ssLog[k].url = ssIn.url
            /\ FetchSucceeded =>
                ssArticle = FullArticle("Unknown Title", <<"Unknown Author">>, "Unknown Venue",
                                        ssIn.url, <<[label |-> "PDF", url |-> ssIn.url]>>)
        /\ (articles # <<>> /\ articles[1].url # NoUrl) =>
            /\ Cardinality(CallsOf("fetch")) = 1
            /\ \A k \in CallsOf("fetch") : ssLog[k].url = articles[1].url
            /\ FetchSucceeded => ssArticle = articles[1]
        /\ (articles # <<>> /\ articles[1].url = NoUrl) =>
            /\ ssPc = "raised" /\ ssExc # None
            /\ CallsOf("fetch") = {}
            /\ CallsOf("classify") = {} /\ CallsOf("generate") = {}
            /\ CallsOf("write") = {}

C24_Witness ==
    /\ Listed /\ ssPc = "raised"
    /\ ssIn.scraper.articles = <<ListedWithoutUrl, ListedWithUrl>>
    /\ ssExc = "NoPdfUrl"
    /\ CallsOf("fetch") = {}

\* C25: when the scraper raises because the listing page cannot be fetched, the
\* run goes on as it does for an empty listing: the URL itself is fetched as a
\* document.
C25_ScrapeFailureFallsBack ==
    (~EndsWithPdf(ssIn.url) /\ ssIn.scraper.raises /\ PastFetch) =>
        /\ Cardinality(CallsOf("fetch")) = 1
        /\ \A k \in CallsOf("fetch") : ssLog[k].url = ssIn.url

\* what holds instead: a raising scraper ends the run with its exception,
\* without any fetch, agent call or write
C25_ScrapeFailureAborts ==
    (~EndsWithPdf(ssIn.url) /\ ssIn.scraper.raises /\ PastFetch) =>
        /\ ssPc = "raised" /\ ssExc = "RequestException"
        /\ CallsOf("fetch") = {} /\ CallsOf("classify") = {}
        /\ CallsOf("generate") = {} /\ CallsOf("write") = {}

\* C29: the document classify_paper passes to the agent is the first MAX_CHARS
\* characters of the text; it has exactly MAX_CHARS characters and is shorter
\* than the text; the document generate_example passes is the whole text.
C29_TruncatedForClassifyOnly ==
    /\ \A k \in CallsOf("classify") :
        /\ ssLog[k].doc.id = ssText.id
        /\ ssLog[k].doc.len = MAX_CHARS
        /\ ssLog[k].doc.len < ssText.len
    /\ \A k \in CallsOf("generate") : ssLog[k].doc = ssText

C29_Witness ==
    /\ ssPc = "persist"
    /\ ssText.len = MIN_CHARS + 1
    /\ Cardinality(CallsOf("classify")) = 1
    /\ \E k \in CallsOf("classify") : ssLog[k].doc.len = MAX_CHARS
    /\ \E k \in CallsOf("generate") : ssLog[k].doc.len = MIN_CHARS + 1

(***************************************************************************)
(* Claims about all stages                                                 *)
(***************************************************************************)
Distinct(seq) == \A i, j \in 1..Len(seq) : seq[i] = seq[j] => i = j

\* C27: within one run of a stage every item is attempted at most once: the
\* k-th event of the run is about the k-th item, with at most one download
\* request per listed article, one extraction per PDF file, one agent call per
\* text file and per ledger entry, one text resolution and one fetch per ledger
\* entry, and one call of each kind in the single-shot run; a failed download
\* has cost exactly one request.
C27_NoRetries ==
    /\ Len(scEvents) <= Len(scListing)
    /\ \A k \in 1..Len(scEvents) :
        /\ scEvents[k].key = KeyOf(scListing[k])
        /\ scEvents[k].requests <= 1
        /\ scEvents[k].dl \in {"failed", "raised", "ok"} => scEvents[k].requests = 1
    /\ scRequests <= Len(scEvents)
    /\ stage \in {"convert", "converted"} =>
        /\ Distinct(items)
        /\ Len(events) <= Len(items)
        /\ \A k \in 1..Len(events) :
            /\ events[k].file = items[k]
            /\ events[k].calls.extract <= 1
        /\ cnt.extract <= Len(events)
    /\ stage \in {"generate", "generated"} =>
        /\ Len(events) <= Len(items)
        /\ \A k \in 1..Len(events) :
            /\ events[k].file = items[k].file
            /\ events[k].calls.resolve <= 1
            /\ events[k].calls.fetch <= 1
            /\ events[k].calls.agent <= 1
        /\ cnt.agent <= Len(events) /\ cnt.fetch <= Len(events)
    /\ Distinct(caFiles)
    /\ Len(caEvents) <= Len(caFiles)
    /\ \A k \in 1..Len(caEvents) : caEvents[k].file = caFiles[k]
    /\ caCalls = Cardinality({k \in 1..Len(caEvents) : caEvents[k].asked})
    /\ \A ev \in {"scrape", "fetch", "classify", "generate", "write"} :
        Cardinality(CallsOf(ev)) <= 1

C27_Witness ==
    /\ scPc = "done" /\ Len(scEvents) = 2
    /\ scEvents[1].dl = "failed" /\ scEvents[1].requests = 1
    /\ scEvents[2].dl = "ok"
    /\ scRequests = 2

\* C28: in a run of classify_all_papers and in a run of generate_all_examples,
\* between two agent calls of different items a delay is executed, no delay is
\* executed after the last item, and a batch of zero or one item never sleeps.
C28_DelayBetweenAgentCalls ==
    /\ \A i, j \in 1..Len(caEvents) :
        (i < j /\ caEvents[i].asked /\ caEvents[j].asked) =>
            \E k \in i..(j - 1) : caEvents[k].slept
    /\ \A k \in 1..Len(caEvents) : k = Len(caFiles) => ~caEvents[k].slept
    /\ caSleeps = Cardinality({k \in 1..Len(caEvents) : caEvents[k].slept})
    /\ Len(caFiles) <= 1 => caSleeps = 0
    /\ stage \in {"generate", "generated"} =>
        /\ \A i, j \in 1..Len(events) :
            (i < j /\ events[i].calls.agent > 0 /\ events[j].calls.agent > 0) =>
                \E k \in i..(j - 1) : events[k].calls.sleep > 0
        /\ \A k \in 1..Len(events) : k = Len(items) => events[k].calls.sleep = 0
        /\ Len(items) <= 1 => cnt.sleep = 0

C28_Witness ==
    /\ stage = "generated" /\ Len(events) = 2
    /\ events[1].what = "failed" /\ events[1].calls.agent = 1 /\ events[1].calls.sleep = 1
    /\ events[2].what = "ok" /\ events[2].calls.agent = 1 /\ events[2].calls.sleep = 0
    /\ cnt.sleep = 1

(***************************************************************************)
(* Claims about the stages run one after the other                         *)
(***************************************************************************)
\* the four stages have run
PlEnded == scPc = "handed" /\ caPc = "handed" /\ stage = "generated"

WithUrl == {k \in 1..Len(scListing) : scListing[k].url # NoUrl}

\* the listing of the scenario: two entries, one with a document URL
TwoEntries == Len(scListing) = 2 /\ Cardinality(WithUrl) = 1

TheUrlEntry == scListing[CHOOSE k \in WithUrl : TRUE]

\* the agent's answer {"is_real_world_application": true, "reason": "ok"}
AnswersTrue == Reply(FALSE, <<"{", "K1", "R", "}">>)

\* the network, the disk and the PDF library let every call through, and the
\* agent answers true whenever it is asked
Smooth ==
    /\ \A k \in 1..Len(scEvents) : scEvents[k].dl \in {"ok", "none"}
    /\ ~prev.failed
    /\ \A k \in 1..Len(caEvents) : caEvents[k].asked => caEvents[k].reply = AnswersTrue
    /\ \A k \in 1..Len(events) : events[k].what # "failed"

\* what the scenario is said to end with
ScenarioOutcome ==
    LET md == WithExt(KeyOf(TheUrlEntry), "md") IN
    /\ Cardinality(DOMAIN scArtDir) = 2
    /\ DOMAIN scPdfDir = {LastSegment(TheUrlEntry.url)} /\ scDownloaded = 1
    /\ DOMAIN mdDir = {md}
    /\ Len(caLedger.entries) = 1
    /\ caLedger.entries[1].file = md /\ caLedger.entries[1].rw
    /\ DOMAIN outDir = {md} /\ outDir[md] = Generated
    /\ Len(events) = 1 /\ events[1].what = "ok" /\ events[1].pid = 1

\* the extracted text is long enough for classify_paper to ask the agent
LongEnough == \A n \in DOMAIN caDir : caDir[n].len >= MIN_CHARS

\* the two entries have different metadata keys
TwoKeys == KeyOf(scListing[1]) # KeyOf(scListing[2])

Cached ==
    { k \in WithUrl :
        /\ Exists(scArtDir, WithExt(KeyOf(scListing[k]), "json"))
        /\ scArtDir[WithExt(KeyOf(scListing[k]), "json")] = scListing[k]
        /\ Exists(scPdfDir, LastSegment(scListing[k].url))
        /\ Exists(mdDir, WithExt(Stem(LastSegment(scListing[k].url)), "md")) }

\* C30: for every article scrape persisted with a document URL and whose
\* document was downloaded and converted, the ledger classify_all_papers writes
\* has an entry whose file stem is the article's metadata key, and
\* generate_all_examples, when it comes to that entry, finds the record and
\* takes the text from the text cache: it fetches nothing.
C30_StemJoinsStages ==
    \A k \in Cached :
        LET key == KeyOf(scListing[k]) IN
        /\ caPc \in {"done", "handed"} =>
            \E e \in 1..Len(caLedger.entries) : Stem(caLedger.entries[e].file) = key
        /\ stage \in {"generate", "generated"} =>
            \A e \in 1..Len(events) :
                Stem(events[e].file) = key =>
                    /\ events[e].what \in {"ok", "failed"}
                    /\ events[e].calls.resolve = 1
                    /\ events[e].calls.fetch = 0
                    /\ events[e].what = "failed" => events[e].calls.agent = 1

C30_Witness ==
    /\ stage = "generated" /\ Cardinality(Cached) = 2
    /\ Len(events) = 2
    /\ \A e \in 1..2 : events[e].what = "ok" /\ events[e].calls.fetch = 0
    /\ cnt.resolve = 2 /\ cnt.fetch = 0

(***************************************************************************)
(* Claims about key collisions, output files and the API key               *)
(***************************************************************************)
\* the scrape run on the empty directories has processed the whole listing
ScrapeDone ==
    /\ scPc \in {"done", "handed"} /\ Len(scEvents) = Len(scListing)
    /\ \A k \in 1..Len(scEvents) : scEvents[k].dl # "raised"

\* the articles j and k of the listing are different and have the same key, as
\* two document URLs with the same last segment or as two titles with the same slug
Collide(j, k) ==
    /\ j < k /\ scListing[j] # scListing[k]
    /\ KeyOf(scListing[j]) = KeyOf(scListing[k])
    /\ (scListing[j].url = NoUrl) <=> (scListing[k].url = NoUrl)

\* the first article of the listing that has the key of article k
FirstOfKey(k) ==
    scListing[CHOOSE i \in 1..k :
                /\ KeyOf(scListing[i]) = KeyOf(scListing[k])
                /\ \A h \in 1..(i - 1) : KeyOf(scListing[h]) # KeyOf(scListing[k])]

ListedKeys == {KeyOf(scListing[k]) : k \in 1..Len(scListing)}

\* the record under the key of every processed article is that of the first
\* article with the key, and a later article of the key is not saved
FirstRecordWins ==
    /\ \A k \in 1..Len(scEvents) :
        /\ Exists(scArtDir, WithExt(KeyOf(scListing[k]), "json"))
        /\ scArtDir[WithExt(KeyOf(scListing[k]), "json")] = FirstOfKey(k)
    /\ \A j, k \in 1..Len(scEvents) : Collide(j, k) => ~scEvents[k].saved
    /\ ScrapeDone => Cardinality(DOMAIN scArtDir) = Cardinality(ListedKeys)

\* C31: of two different articles of one listing with the same key the record
\* and the document under the key are those of the first; no record is saved
\* and no request is sent for the later one; after the run there are as many
\* records as keys.
C31_FirstOfKeyWins ==
    /\ FirstRecordWins
    /\ \A j, k \in 1..Len(scEvents) : Collide(j, k) => scEvents[k].requests = 0

\* what holds instead: the record is the first article's, and the document of a
\* later article is requested exactly when every earlier download under its
\* file name has failed
C31_LaterDownloadedAfterFailure ==
    /\ FirstRecordWins
    /\ \A k \in 1..Len(scEvents) :
        scListing[k].url # NoUrl =>
            (scEvents[k].requests = 1 <=>
                \A i \in 1..(k - 1) :
                    (/\ scListing[i].url # NoUrl
                     /\ LastSegment(scListing[i].url) = LastSegment(scListing[k].url))
                    => scEvents[i].dl = "failed")

\* the item the scrape run has just processed, and the path of its document
LastScraped == scListing[Len(scEvents)]
LastScrapedPath == LastSegment(LastScraped.url)

\* the item a batch run has just processed failed
LastBatchFailed(st) ==
    stage \in st /\ events # <<>> /\ events[Len(events)].what = "failed"

\* a failed item of convert_all_pdfs or generate_all_examples has no file at
\* its target path
BatchFailureLeavesNoFile ==
    /\ LastBatchFailed({"convert", "converted"}) =>
        ~Exists(mdDir, WithExt(Stem(events[Len(events)].file), "md"))
    /\ LastBatchFailed({"generate", "generated"}) =>
        ~Exists(outDir, events[Len(events)].file)

\* C32: an item of download_pdf, convert_all_pdfs or generate_all_examples that
\* has failed has no file at its target path, so that a later run attempts it
\* again.
C32_FailedItemHasNoFile ==
    /\ (scEvents # <<>> /\ scEvents[Len(scEvents)].dl \in {"failed", "raised"}) =>
        ~Exists(scPdfDir, LastScrapedPath)
    /\ BatchFailureLeavesNoFile

\* what holds instead: the file is written only after the request has
\* succeeded, a failed request leaves no file, and a download that fails while
\* the file is written leaves no file or a partial one, which later runs skip
C32_NoFileUnlessWriteFailed ==
    /\ \A k \in 1..Len(scEvents) : scEvents[k].dl = "failed" => scEvents[k].requests = 1
    /\ (scEvents # <<>> /\ scEvents[Len(scEvents)].dl = "failed") =>
        ~Exists(scPdfDir, LastScrapedPath)
    /\ (scEvents # <<>> /\ scEvents[Len(scEvents)].dl = "raised") =>
        (Exists(scPdfDir, LastScrapedPath) => scPdfDir[LastScrapedPath] = PartialBytes)
    /\ BatchFailureLeavesNoFile

====
